---- MODULE Spec2Model ----
(***************************************************************************)
(* A model of the IdSiberCoder agent loop core: the conversation state     *)
(* (ConversationHandler), the context compactor (ContextManager), the      *)
(* request handlers (RequestHandler, GeneralMCPHandler), the tool dispatch *)
(* loop of the extension (processOutcome), the session store               *)
(* (SessionManager) with the session handlers of the extension, and the    *)
(* provider adapters (OpenAI, Grok, DeepSeek, Claude, Gemini).             *)
(*                                                                         *)
(* Strings are TLA+ strings.  Two characters of the source that are not    *)
(* ASCII are written with an ASCII stand-in that the modelled texts do not *)
(* use otherwise; CharCode gives them their real UTF-16 code:              *)
(*     "@" stands for the bullet U+2022, "#" for the cross mark U+274C.    *)
(* An optional string field that is undefined is "", an optional number    *)
(* that is undefined is -1, an optional array that is undefined is << >>:  *)
(* the code tests all of these by truthiness or by length only.            *)
(***************************************************************************)
EXTENDS Integers, Sequences, FiniteSets, TLC

VARIABLES
    history,        \* ConversationHandler.history
    summaryLines,   \* ContextManager.summaryLines
    summaryHashes,  \* ContextManager.summaryHashes
    options,        \* the ContextManager's option fields
    pc,             \* where the prompt cycle of the extension stands
    toolCalls,      \* the batch of tool calls processOutcome is working through
    callIndex,      \* the 1-based position in toolCalls of the next call
    sent,           \* the transcript handed to provider.sendChat by the call in flight
    hostLog,        \* what this cycle passed to appendMessageToHosts, in order
    execLog,        \* the executor invocations of the current batch, in order
    batchLog,       \* the calls of the current batch that got a tool message, in order
    lastResponse,   \* how the last provider call of this cycle ended
    continuations,  \* continueAfterTool calls made by this cycle
    providerCalls,  \* provider calls issued since activation
    stopRequested,  \* a stopProcess message arrived during this cycle
    stopPoint,      \* the tools the batch had executed when it arrived, or -1
    sessions,       \* SessionManager: session id -> stored messages
    activeSessionId,\* SessionManager.activeSessionId
    commandPc,      \* where the cycle started by the idSiberCoder.sendPrompt command is
    disk,           \* the files on disk, and what the FileManager did to them
    aliases,        \* the sessions whose messages array is the array history refers to
    wire,           \* the last exchange of a provider adapter with its vendor
    cycleSession,   \* the session that was active when the last prompt cycle started
    created         \* the sessions createSession has made, each under an id of its own

vars == << history, summaryLines, summaryHashes, options, pc, toolCalls, callIndex,
           sent, hostLog, execLog, batchLog, lastResponse, continuations,
           providerCalls, stopRequested, stopPoint, sessions, activeSessionId,
           commandPc, disk, aliases, wire, cycleSession, created >>

convVars == << history, summaryLines, summaryHashes, options >>
loopVars == << pc, toolCalls, callIndex, sent, hostLog, execLog, batchLog, lastResponse,
               continuations, providerCalls, stopRequested, stopPoint, commandPc >>
sessionVars == << sessions, activeSessionId >>

(***************************************************************************)
(* Bounds of the model.                                                    *)
(***************************************************************************)
\* provider calls (first calls and continuations) the model follows
MaxProviderCalls == 3
\* the longest transcript the interface-level model appends to
MaxHistory == 5

(***************************************************************************)
(* Strings.                                                                *)
(***************************************************************************)
\* the element of a one-element set
Only(S) == CHOOSE x \in S : TRUE

Max(a, b) == IF a >= b THEN a ELSE b
Min(a, b) == IF a <= b THEN a ELSE b

CharAt(s, i) == SubSeq(s, i, i)

\* String.prototype.startsWith
StartsWith(s, p) == Len(s) >= Len(p) /\ SubSeq(s, 1, Len(p)) = p

\* String.prototype.endsWith
EndsWith(s, p) == Len(s) >= Len(p) /\ SubSeq(s, Len(s) - Len(p) + 1, Len(s)) = p

\* String.prototype.slice(from) and slice(0, to), 0-based as in the source
SliceFrom(s, from) == SubSeq(s, from + 1, Len(s))
SliceTo(s, to) == SubSeq(s, 1, Max(0, Min(to, Len(s))))

\* String.prototype.includes
Includes(s, sub) == \E i \in 1..(Len(s) - Len(sub) + 1) : SubSeq(s, i, i + Len(sub) - 1) = sub

\* the characters \s matches among those the texts use
IsSpace(c) == c \in {" ", "\n", "\t"}

RECURSIVE TrimStart(_)
TrimStart(s) == IF Len(s) > 0 /\ IsSpace(CharAt(s, 1)) THEN TrimStart(SliceFrom(s, 1)) ELSE s

RECURSIVE TrimEnd(_)
TrimEnd(s) == IF Len(s) > 0 /\ IsSpace(CharAt(s, Len(s))) THEN TrimEnd(SliceTo(s, Len(s) - 1)) ELSE s

\* String.prototype.trim
Trim(s) == TrimEnd(TrimStart(s))

\* what content.replace(/\s+/g, ' ') leaves of the characters lo..hi of s: one space
\* for the first character of a run of white space, nothing for the others of the run
RECURSIVE CollapseRange(_, _, _)
CollapseRange(s, lo, hi) ==
    IF lo > hi THEN ""
    ELSE IF lo = hi
         THEN (IF ~IsSpace(CharAt(s, lo)) THEN CharAt(s, lo)
               ELSE IF lo > 1 /\ IsSpace(CharAt(s, lo - 1)) THEN "" ELSE " ")
         ELSE CollapseRange(s, lo, (lo + hi) \div 2) \o CollapseRange(s, (lo + hi) \div 2 + 1, hi)

\* content.replace(/\s+/g, ' ')
CollapseSpaces(s) == CollapseRange(s, 1, Len(s))

\* String.prototype.split('\n')
RECURSIVE SplitLines(_)
SplitLines(s) ==
    IF \E i \in 1..Len(s) : CharAt(s, i) = "\n"
    THEN LET i == CHOOSE k \in 1..Len(s) :
                    CharAt(s, k) = "\n" /\ \A j \in 1..(k - 1) : CharAt(s, j) # "\n"
         IN  << SliceTo(s, i - 1) >> \o SplitLines(SliceFrom(s, i))
    ELSE << s >>

\* Array.prototype.join
RECURSIVE Join(_, _)
Join(lines, sep) ==
    IF Len(lines) = 0 THEN ""
    ELSE IF Len(lines) = 1 THEN lines[1]
    ELSE lines[1] \o sep \o Join(Tail(lines), sep)

\* Array.prototype.filter on a sequence
RECURSIVE SelectSeqIdx(_, _, _)
SelectSeqIdx(s, keep, i) ==
    IF i > Len(s) THEN << >>
    ELSE (IF i \in keep THEN << s[i] >> ELSE << >>) \o SelectSeqIdx(s, keep, i + 1)

\* the printable ASCII characters, code 32 first (a tab holds the place of code 96,
\* the backquote, which the texts never use)
Ascii == " !\"#$%&'()*+,-./0123456789:;<=>?@ABCDEFGHIJKLMNOPQRSTUVWXYZ[\\]^_\tabcdefghijklmnopqrstuvwxyz{|}~"

AsciiCode == [c \in {CharAt(Ascii, i) : i \in 1..Len(Ascii)} |->
                 31 + (CHOOSE i \in 1..Len(Ascii) : CharAt(Ascii, i) = c)]

\* String.prototype.charCodeAt of a one-character string
CharCode(c) ==
    IF c = "@" THEN 8226
    ELSE IF c = "#" THEN 10060
    ELSE IF c = "\n" THEN 10
    ELSE IF c = "\t" THEN 9
    ELSE AsciiCode[c]

\* \w of a regular expression
IsWordCode(k) == (k >= 48 /\ k <= 57) \/ (k >= 65 /\ k <= 90) \/ (k >= 97 /\ k <= 122) \/ k = 95

IsWordChar(c) == IsWordCode(CharCode(c))

\* the lower-case form of a one-character string (the i flag of a regular expression)
LowerOfCode(c, k) == IF k >= 65 /\ k <= 90 THEN CharAt(Ascii, k + 32 - 31) ELSE c

Lower(c) == LowerOfCode(c, CharCode(c))

RECURSIVE LowerAll(_)
LowerAll(s) == IF Len(s) = 0 THEN "" ELSE Lower(CharAt(s, 1)) \o LowerAll(SliceFrom(s, 1))

\* the first position of sub in s at or after position from (1-based), 0 when there is none
Least(hits) == IF hits = {} THEN 0 ELSE CHOOSE i \in hits : \A j \in hits : i <= j

IndexOf(s, sub, from) ==
    Least({i \in from..(Len(s) - Len(sub) + 1) : SubSeq(s, i, i + Len(sub) - 1) = sub})

\* JSON.stringify of a string: quoted, with quotes, backslashes and line breaks escaped
JsonEscapeChar(c) ==
    IF c = "\"" THEN "\\\""
    ELSE IF c = "\\" THEN "\\\\"
    ELSE IF c = "\n" THEN "\\n"
    ELSE IF c = "\t" THEN "\\t"
    ELSE c

RECURSIVE JsonEscape(_, _, _)
JsonEscape(s, lo, hi) ==
    IF lo > hi THEN ""
    ELSE IF lo = hi THEN JsonEscapeChar(CharAt(s, lo))
    ELSE JsonEscape(s, lo, (lo + hi) \div 2) \o JsonEscape(s, (lo + hi) \div 2 + 1, hi)

JsonStringify(s) == "\"" \o JsonEscape(s, 1, Len(s)) \o "\""

(***************************************************************************)
(* Messages.                                                               *)
(***************************************************************************)
NoUsage == [promptTokens |-> -1, completionTokens |-> -1, totalTokens |-> -1]

\* a ToolFunctionCall: id, function.name, function.arguments
ToolCall(id, name, arguments) == [id |-> id, name |-> name, arguments |-> arguments]

\* a ConversationMessage
Message(role, content, name, toolCallId, usage, calls) ==
    [role |-> role, content |-> content, name |-> name, toolCallId |-> toolCallId,
     usage |-> usage, toolCalls |-> calls]

SystemMessage(content) == Message("system", content, "", "", NoUsage, << >>)
UserMessage(content) == Message("user", content, "", "", NoUsage, << >>)
AssistantMessage(content, usage, calls) == Message("assistant", content, "", "", usage, calls)
ToolMessage(content, toolName, toolCallId) ==
    Message("tool", content, toolName, toolCallId, NoUsage, << >>)

(***************************************************************************)
(* ContextManager.                                                         *)
(***************************************************************************)
\* the default of options.summaryPrefix, which the extension never overrides
summaryPrefix == "Context summary (auto-generated):"

\* the default of options.summaryMaxLineLength
summaryMaxLineLength == 300

\* the default of options.actions
optimizedActions == {"read_file"}

\* ContextManager.truncate
truncate(value) ==
    IF Len(value) <= summaryMaxLineLength THEN value
    ELSE SliceTo(value, summaryMaxLineLength - 3) \o "..."

\* one step of hashSummary on the 32-bit hash << high 16 bits, low 16 bits >>:
\* hash = ((hash << 5) - hash + code) | 0
hashStep(h, code) ==
    LET lo == h[2] * 31 + code
        hi == h[1] * 31 + (lo \div 65536)
    IN  << hi % 65536, lo % 65536 >>

\* the loop of hashSummary over the characters lo..hi of value, entered with hash h
RECURSIVE hashFrom(_, _, _, _)
hashFrom(value, h, lo, hi) ==
    IF lo > hi THEN h
    ELSE IF lo = hi THEN hashStep(h, CharCode(CharAt(value, lo)))
    ELSE Only({hashFrom(value, half, (lo + hi) \div 2 + 1, hi) :
                  half \in {hashFrom(value, h, lo, (lo + hi) \div 2)}})

\* ContextManager.hashSummary; the 32-bit value stands for its base-16 text
hashSummary(value) == hashFrom(value, << 0, 0 >>, 1, Len(value))

\* ContextManager.limitJsonString
clipJson(str, maxLength) ==
    IF Len(str) <= maxLength THEN str ELSE SliceTo(str, maxLength - 3) \o "..."

limitJsonString(arguments, maxLength) ==
    clipJson(IF arguments = "" THEN "{}" ELSE JsonStringify(arguments), maxLength)

\* the message is a summary message: an assistant turn that starts with the prefix
IsSummaryMessage(m) == m.role = "assistant" /\ StartsWith(m.content, summaryPrefix)

\* .map((line) => line.trim()).filter(Boolean)
NonEmptyLine(trimmed) == IF trimmed = "" THEN << >> ELSE << trimmed >>

RECURSIVE MapTrimNonEmpty(_)
MapTrimNonEmpty(lines) ==
    IF Len(lines) = 0 THEN << >>
    ELSE NonEmptyLine(Trim(lines[1])) \o MapTrimNonEmpty(Tail(lines))

\* the lines of a summary message: its content without the prefix line, split, trimmed
summaryLinesOf(content, marker) ==
    MapTrimNonEmpty(SplitLines(IF StartsWith(content, marker)
                               THEN SliceFrom(content, Len(marker)) ELSE content))

hydrateFrom(parsed, lines, hashes) ==
    IF Len(parsed) = 0 THEN [lines |-> lines, hashes |-> hashes]
    ELSE [lines |-> parsed, hashes |-> {hashSummary(parsed[i]) : i \in 1..Len(parsed)}]

hydrateFound(messages, found, lines, hashes) ==
    IF Len(lines) > 0 \/ found = 0 THEN [lines |-> lines, hashes |-> hashes]
    ELSE hydrateFrom(summaryLinesOf(messages[found].content, summaryPrefix \o "\n"),
                     lines, hashes)

\* ContextManager.hydrateSummaryFromMessages: the summaryLines and summaryHashes it leaves
hydrateSummaryFromMessages(messages, lines, hashes) ==
    hydrateFound(messages, Least({i \in 1..Len(messages) : IsSummaryMessage(messages[i])}),
                 lines, hashes)

\* ContextManager.formatSummaryContent
formatSummaryContent(lines) ==
    LET header == IF EndsWith(summaryPrefix, ":") THEN summaryPrefix ELSE summaryPrefix \o ":"
    IN  header \o "\n" \o Join(lines, "\n")

\* a merge that does not put the system turn back in front
mergeWithoutSystem(messages, summaryMessage, startIndex, tail) == << summaryMessage >> \o tail

\* ContextManager.mergeWithSummary
mergeWithSummary(messages, summaryMessage, startIndex, tail) ==
    IF Len(messages) = 0 THEN << summaryMessage >>
    ELSE LET remaining == IF startIndex = 0 THEN SubSeq(tail, 2, Len(tail)) ELSE tail
         IN  << messages[1], summaryMessage >> \o remaining

\* the end of the run of word characters of s that starts at position from
RECURSIVE WordRunEnd(_, _)
WordRunEnd(s, from) ==
    IF from + 1 <= Len(s) /\ IsWordChar(CharAt(s, from + 1)) THEN WordRunEnd(s, from + 1) ELSE from

\* how many characters s or S follow each other in s from position from on
RECURSIVE CountS(_, _)
CountS(s, from) ==
    IF from <= Len(s) /\ Lower(CharAt(s, from)) = "s" THEN 1 + CountS(s, from + 1) ELSE 0

\* where the group (\w+) of /Tool:\\s*(\w+)/i starts when the expression is matched at
\* position i of s, 0 when it does not match there.  The expression reads: the text
\* "Tool:" whatever the case, one backslash, any number of letters s, then word
\* characters; s* is greedy and gives one s back when no word character follows it.
GroupAfterS(s, j, k) ==
    IF j + k <= Len(s) /\ IsWordChar(CharAt(s, j + k)) THEN j + k
    ELSE IF k >= 1 THEN j + k - 1
    ELSE 0

ToolGroupStart(s, i) ==
    IF ~(i + 5 <= Len(s) /\ CharAt(s, i + 4) = ":" /\ CharAt(s, i + 5) = "\\"
         /\ LowerAll(SubSeq(s, i, i + 3)) = "tool")
    THEN 0
    ELSE GroupAfterS(s, i + 6, CountS(s, i + 6))

GroupText(content, g) == IF g = 0 THEN "" ELSE SubSeq(content, g, WordRunEnd(content, g))

\* match[1] of message.content.match(/Tool:\\s*(\w+)/i), "" when there is no match; the
\* first position the expression matches at is the one whose group starts first
ToolMatch(content) ==
    GroupText(content, Least({ToolGroupStart(content, i) : i \in 1..Len(content)} \ {0}))

\* the 1-based positions of the assistant turns optimize() buckets, with their key
\* (the key `${action}|${content}` is decided by the content alone)
IsOptimizedAction(action) == action # "" /\ action \in optimizedActions

Bucketed(working) ==
    {i \in 1..Len(working) :
        working[i].role = "assistant" /\ IsOptimizedAction(ToolMatch(working[i].content))}

\* the stale members of the bucket of position i: all but its last maxInstances
StaleOf(working, bucket, maxInstances) ==
    IF Cardinality(bucket) <= maxInstances THEN {}
    ELSE {i \in bucket : Cardinality({j \in bucket : j < i})
                             < Max(0, Cardinality(bucket) - maxInstances)}

bucketOf(working, all, i) == {j \in all : working[j].content = working[i].content}

staleOfAll(working, all, maxInstances) ==
    UNION {StaleOf(working, bucketOf(working, all, i), maxInstances) : i \in all}

withToolResults(working, stale) ==
    stale \cup {i + 1 : i \in {j \in stale : j + 1 <= Len(working)
                                                   /\ working[j + 1].role = "tool"}}

\* indicesToRemove of optimize(), as 1-based positions
indicesToRemove(working, maxInstances) ==
    withToolResults(working, staleOfAll(working, Bucketed(working), maxInstances))

\* ContextManager.getLastUsageTokens
RECURSIVE getLastUsageTokens(_, _)
getLastUsageTokens(messages, index) ==
    IF index < 1 THEN 0
    ELSE LET usage == messages[index].usage
             prompt == Max(0, usage.promptTokens)
             completion == Max(0, usage.completionTokens)
         IN  IF usage.totalTokens >= 0 THEN usage.totalTokens
             ELSE IF prompt + completion > 0 THEN prompt + completion
             ELSE getLastUsageTokens(messages, index - 1)

\* a ContextManager that ignores the usage
neverForceSummary(messages, opts) == FALSE

\* ContextManager.shouldForceSummaryByTokens (a summaryTokenThreshold of 0 is "not set")
shouldForceSummaryByTokens(messages, opts) ==
    IF opts.summaryTokenThreshold <= 0 THEN FALSE
    ELSE getLastUsageTokens(messages, Len(messages)) >= opts.summaryTokenThreshold

\* the text applySummaries appends to an assistant turn's content for its tool calls
RECURSIVE concatTool(_)
concatTool(calls) ==
    IF Len(calls) = 0 THEN ""
    ELSE LET tcName == calls[1].name
             tcContent == IF tcName # "edit_file" /\ tcName # "write_file"
                          THEN JsonStringify(calls[1].arguments)
                          ELSE limitJsonString(calls[1].arguments, 200)
         IN  "\nCall Tool " \o tcName \o " : " \o tcContent \o concatTool(Tail(calls))

\* the label of a bullet
bulletLabel(entry) ==
    IF entry.role = "tool"
    THEN "tool" \o (IF entry.name # "" THEN " (" \o entry.name \o ")" ELSE "")
    ELSE entry.role

\* the content of an assistant turn's bullet gets the turn's tool calls
bulletWithCalls(entry, flat) ==
    IF entry.role = "assistant"
    THEN (IF flat # "" THEN flat \o concatTool(entry.toolCalls) ELSE "")
    ELSE flat

\* the content of a read_file result is cut after the marker
bulletCutResult(entry, content, marker) ==
    IF entry.role = "tool" /\ entry.name = "read_file" /\ Includes(content, marker)
    THEN SliceTo(content, IndexOf(content, marker, 1) - 1) \o "Tool result for read_file: ..."
    ELSE content

bulletLine(entry, content) ==
    IF content = "" THEN "" ELSE truncate("@ " \o bulletLabel(entry) \o ": " \o content)

\* the bullet applySummaries renders for a turn of the head, "" when it renders none
bulletOf(entry) ==
    IF entry.role = "system" \/ IsSummaryMessage(entry) THEN ""
    ELSE bulletLine(entry,
             bulletCutResult(entry,
                 bulletWithCalls(entry, Trim(CollapseSpaces(entry.content))),
                 "Tool result for read_file:"))

\* the loop of applySummaries over the head: the new lines and the grown hash set
RECURSIVE collectBullets(_, _, _, _)
\* a loop that takes every bullet, whether its hash is known or not
collectEvery(head, i, newLines, hashes, bullet, hash) ==
    IF bullet = ""
    THEN collectBullets(head, i + 1, newLines, hashes)
    ELSE collectBullets(head, i + 1, Append(newLines, bullet), hashes \cup {hash})

collectBullet(head, i, newLines, hashes, bullet, hash) ==
    IF bullet = "" \/ hash \in hashes
    THEN collectBullets(head, i + 1, newLines, hashes)
    ELSE collectBullets(head, i + 1, Append(newLines, bullet), hashes \cup {hash})

hashedBullet(head, i, newLines, hashes, bullet) ==
    collectBullet(head, i, newLines, hashes, bullet, hashSummary(bullet))

collectBullets(head, i, newLines, hashes) ==
    IF i > Len(head) THEN [newLines |-> newLines, hashes |-> hashes]
    ELSE hashedBullet(head, i, newLines, hashes, bulletOf(head[i]))

\* the while loop of applySummaries: step startIndex (0-based) back over tool turns
RECURSIVE backOverTools(_, _)
backOverTools(messages, startIndex) ==
    IF startIndex > 0 /\ startIndex < Len(messages) /\ messages[startIndex + 1].role = "tool"
    THEN backOverTools(messages, startIndex - 1)
    ELSE startIndex

\* a cut that moves behind the turn it fell on when that turn follows a tool request
cutBehindPair(messages, naive, walked) ==
    IF /\ naive > 0
       /\ walked > 0
       /\ walked < Len(messages)
       /\ messages[walked].role = "assistant"
       /\ Len(messages[walked].toolCalls) > 0
    THEN walked + 1 ELSE walked

\* a cut that falls on an assistant turn with tool calls moves before that turn
cutPaired(messages, naive, walked) ==
    IF /\ naive > 0
       /\ walked > 0
       /\ walked <= Len(messages)
       /\ messages[walked].role = "assistant"
       /\ Len(messages[walked].toolCalls) > 0
    THEN walked - 1 ELSE walked

\* a forced summary cuts at the middle when the cut would leave no head
cutForced(messages, force, paired) ==
    IF force /\ paired <= 1 /\ Len(messages) > 2
    THEN Min(Max(2, Len(messages) \div 2), Max(1, Len(messages) - 1))
    ELSE paired

cutFrom(messages, force, naive) ==
    cutForced(messages, force,
              cutPaired(messages, naive,
                        IF naive > 0 THEN backOverTools(messages, naive) ELSE naive))

\* the cut point of applySummaries: the 0-based index where the tail starts
cutPoint(messages, force, opts) ==
    cutFrom(messages, force, Max(0, Len(messages) - Max(0, opts.summaryRetention)))

\* a summary message that holds the lines of this pass only
summaryOfNewLines(lines, newLines) ==
    AssistantMessage(formatSummaryContent(newLines), NoUsage, << >>)

\* the summary message applySummaries merges in: the old lines under the bare prefix
\* when the head gave no new line, all lines under the formatted header otherwise
summaryMessageOf(lines, newLines) ==
    AssistantMessage(IF Len(newLines) = 0
                     THEN Trim(summaryPrefix \o "\n" \o Join(lines, "\n"))
                     ELSE formatSummaryContent(lines \o newLines),
                     NoUsage, << >>)

\* the result of applySummaries once the head is rendered
summarizeWith(messages, startIndex, lines, got) ==
    IF Len(got.newLines) = 0 /\ Len(lines) = 0
    THEN [summaryUpdated |-> FALSE, messages |-> messages,
          lines |-> lines, hashes |-> got.hashes]
    ELSE [summaryUpdated |-> Len(got.newLines) > 0,
          messages |-> mergeWithSummary(messages, summaryMessageOf(lines, got.newLines),
                           startIndex, SubSeq(messages, startIndex + 1, Len(messages))),
          lines |-> lines \o got.newLines, hashes |-> got.hashes]

summarizeAt(messages, startIndex, lines, hashes) ==
    summarizeWith(messages, startIndex, lines,
                  collectBullets(SubSeq(messages, 1, startIndex), 1, << >>, hashes))

\* ContextManager.applySummaries
applySummaries(messages, force, lines, hashes, opts) ==
    IF ~force /\ Len(messages) <= opts.summaryThreshold
    THEN [summaryUpdated |-> FALSE, messages |-> messages, lines |-> lines, hashes |-> hashes]
    ELSE summarizeAt(messages, cutPoint(messages, force, opts), lines, hashes)

\* the result of optimize() from what the summary step gave
optimizeResult(removed, summarized) ==
    [optimized |-> removed > 0 \/ summarized.summaryUpdated,
     messages |-> summarized.messages, removed |-> removed,
     summaryUpdated |-> summarized.summaryUpdated,
     lines |-> summarized.lines, hashes |-> summarized.hashes]

\* the summary step of optimize() on the filtered messages
optimizeFiltered(messages, filtered, hydrated, opts) ==
    optimizeResult(Len(messages) - Len(filtered),
        IF opts.summaryEnabled
        THEN applySummaries(filtered, shouldForceSummaryByTokens(filtered, opts),
                            hydrated.lines, hydrated.hashes, opts)
        ELSE [summaryUpdated |-> FALSE, messages |-> filtered,
              lines |-> hydrated.lines, hashes |-> hydrated.hashes])

optimizeHydrated(messages, hydrated, opts) ==
    IF ~opts.enabled \/ Len(messages) <= 2
    THEN [optimized |-> FALSE, messages |-> messages, removed |-> 0,
          summaryUpdated |-> FALSE, lines |-> hydrated.lines, hashes |-> hydrated.hashes]
    ELSE optimizeFiltered(messages,
             SelectSeqIdx(messages,
                          (1..Len(messages)) \ indicesToRemove(messages, opts.maxInstances), 1),
             hydrated, opts)

\* ContextManager.optimize: its result together with the summaryLines and
\* summaryHashes it leaves in the ContextManager
optimize(messages, lines0, hashes0, opts) ==
    optimizeHydrated(messages, hydrateSummaryFromMessages(messages, lines0, hashes0), opts)

(***************************************************************************)
(* ConversationHandler: each operation gives the history, summaryLines and *)
(* summaryHashes it leaves.                                                *)
(***************************************************************************)
ConvState(h, lines, hashes) == [history |-> h, lines |-> lines, hashes |-> hashes]

\* the swap both load and optimize do: the optimized messages replace the history
\* only when the result is flagged optimized
swapIfOptimized(h, result) ==
    ConvState(IF result.optimized THEN result.messages ELSE h, result.lines, result.hashes)

\* the summaryLines and summaryHashes of a ContextManager as constructed
NoSummary == [lines |-> << >>, hashes |-> {}]

\* a reset that leaves the summaryLines and summaryHashes of the ContextManager as they are
keepSummary(cm) == cm

\* ContextManager.reset, on the summaryLines and summaryHashes cm the ContextManager holds
reset(cm) == NoSummary

\* initialize ignores the result of the optimize it runs on the fresh history
keepFresh(fresh, result) == ConvState(fresh, result.lines, result.hashes)

\* initialize after its optimizer.reset() left the summary state cleared
initializeCleared(prompt, opts, cleared) ==
    keepFresh(<< SystemMessage(prompt) >>,
              optimize(<< SystemMessage(prompt) >>, cleared.lines, cleared.hashes, opts))

\* ConversationHandler.initialize (and reset, which only calls it)
initialize(prompt, opts, cm) == initializeCleared(prompt, opts, reset(cm))

\* ConversationHandler.addUserMessage
addUserMessage(h, content) == Append(h, UserMessage(content))

\* ConversationHandler.addAssistantMessage
addAssistantMessage(h, content, usage, calls) == Append(h, AssistantMessage(content, usage, calls))

\* a tool turn appended without the id of its call
addToolResultUnkeyed(h, content, toolName, toolCallId) ==
    Append(h, ToolMessage(content, toolName, ""))

\* ConversationHandler.addToolResult
addToolResult(h, content, toolName, toolCallId) ==
    Append(h, ToolMessage(content, toolName, toolCallId))

\* load after its optimizer.reset() left the summary state cleared, for a transcript
\* that is kept when keep holds
loadCleared(loaded, fallbackSystemPrompt, opts, cleared, keep) ==
    IF ~keep
    THEN initialize(fallbackSystemPrompt, opts, cleared)
    ELSE swapIfOptimized(loaded, optimize(loaded, cleared.lines, cleared.hashes, opts))

\* a load that only rejects an empty transcript
loadUnlessEmpty(loaded, fallbackSystemPrompt, opts, cm) ==
    loadCleared(loaded, fallbackSystemPrompt, opts, reset(cm), Len(loaded) # 0)

\* ConversationHandler.load
load(loaded, fallbackSystemPrompt, opts, cm) ==
    loadCleared(loaded, fallbackSystemPrompt, opts, reset(cm),
                Len(loaded) # 0 /\ loaded[1].role = "system")

\* ConversationHandler.optimize
convOptimize(h, lines, hashes, opts) == swapIfOptimized(h, optimize(h, lines, hashes, opts))

(***************************************************************************)
(* The configurations and inputs the model draws from.                     *)
(***************************************************************************)
\* buildSystemPrompt's result for the open workspace folder
systemPrompt == "You are IdSiberCoder."

\* the ContextManager options of the configurations followed: enabled, summaryThreshold
\* and summaryRetention come from the settings, the rest are the constructor's defaults
OptionChoices ==
    { [enabled |-> TRUE, maxInstances |-> 1, summaryEnabled |-> TRUE,
       summaryThreshold |-> 4, summaryRetention |-> 2, summaryTokenThreshold |-> 0],
      [enabled |-> TRUE, maxInstances |-> 1, summaryEnabled |-> TRUE,
       summaryThreshold |-> 3, summaryRetention |-> 3, summaryTokenThreshold |-> 0] }

ReadCall == ToolCall("c1", "read_file", "{\"file_path\":\"a.txt\"}")

\* the turns the interface-level model appends
ApiUserTexts == {"hi"}
ApiAssistantTurns ==
    { AssistantMessage("ok", NoUsage, << >>),
      AssistantMessage("Tool:\\read_file a.txt", NoUsage, << >>),
      AssistantMessage("", NoUsage, << ReadCall >>) }
ApiToolTurns == { ToolMessage("Tool result for read_file:\nabc", "read_file", "c1") }

\* the transcripts the interface-level model loads: empty, not system-first, a bare
\* system turn, one that holds a summary message, and one longer than the thresholds
ApiLoads ==
    { << >>,
      << UserMessage("hi") >>,
      << SystemMessage("old prompt") >>,
      << SystemMessage("old prompt"),
         AssistantMessage(summaryPrefix \o "\n@ user: hi\n@ assistant: ok", NoUsage, << >>),
         UserMessage("hi") >>,
      << SystemMessage("old prompt"), UserMessage("hi"),
         AssistantMessage("", NoUsage, << ReadCall >>),
         ToolMessage("Tool result for read_file:\nabc", "read_file", "c1"),
         AssistantMessage("ok", NoUsage, << >>) >> }

(***************************************************************************)
(* Tool dispatch: parseToolArguments, ensureToolParameters, the registry   *)
(* of buildTooling, ToolCallHandler.execute, executeFileTool and           *)
(* buildToolOutputs.                                                       *)
(***************************************************************************)
\* settings.maxIterations as configured for the runs the model follows (its default is 12)
maxIterations == 1

\* fileToolAlias[requestedName], "" when the table has no such key
fileToolAlias(name) ==
    CASE name = "read" -> "read_file"
      [] name = "write" -> "write_file"
      [] name = "append" -> "append_to_file"
      [] name = "delete" -> "delete_file"
      [] name = "copy" -> "copy_file"
      [] name = "move" -> "move_file"
      [] name = "list" -> "list_directory"
      [] name = "edit" -> "edit_file"
      [] OTHER -> ""

\* normalizedAction of processOutcome: fileToolAlias[requestedName] ?? requestedName
normalizedAction(requestedName) ==
    IF fileToolAlias(requestedName) # "" THEN fileToolAlias(requestedName) ELSE requestedName

\* the keys of the registry buildTooling returns
registry ==
    {"read_file", "write_file", "append_to_file", "delete_file", "copy_file", "move_file",
     "list_directory", "edit_file"}

\* a parsed argument value: kind is "object", "null" (JSON null) or "scalar" (a number,
\* string, boolean or array, whose named properties all read as undefined)
EmptyObject ==
    [kind |-> "object", file_path |-> "", path |-> "", directory |-> "", target |-> "",
     dir_path |-> "", content |-> "", source_path |-> "", from |-> "",
     destination_path |-> "", destination |-> "", to |-> "", edits |-> << >>]

\* JSON.parse on the argument payloads the model uses; kind "error" is a SyntaxError
JsonParse(text) ==
    CASE text = "{\"file_path\":\"a.txt\"}" -> [EmptyObject EXCEPT !.file_path = "a.txt"]
      [] text = "{\"path\":\"a.txt\"}" -> [EmptyObject EXCEPT !.path = "a.txt"]
      [] text = "{}" -> EmptyObject
      [] text = "null" -> [EmptyObject EXCEPT !.kind = "null"]
      [] text = "42" -> [EmptyObject EXCEPT !.kind = "scalar"]
      [] OTHER -> [EmptyObject EXCEPT !.kind = "error"]

\* the catch of parseToolArguments: a payload that does not parse gives {}
parsedOrEmpty(parsed) == IF parsed.kind # "error" THEN parsed ELSE EmptyObject

\* parseToolArguments
parseToolArguments(call) ==
    IF Trim(call.arguments) # "" THEN parsedOrEmpty(JsonParse(call.arguments)) ELSE EmptyObject

\* a ?? b on optional strings
Coalesce(a, b) == IF a # "" THEN a ELSE b

NoParams ==
    [file_path |-> "", content |-> "", source_path |-> "", destination_path |-> "",
     dir_path |-> "", edits |-> << >>]

\* the edits ensureToolParameters keeps: those with a non-empty find
RECURSIVE keptEdits(_)
keptEdits(edits) ==
    IF Len(edits) = 0 THEN << >>
    ELSE (IF edits[1].find # "" THEN << edits[1] >> ELSE << >>) \o keptEdits(Tail(edits))

\* ensureToolParameters: threw is the TypeError of reading a property of null
ensureToolParameters(action, parameters) ==
    LET p == parameters
        ok(params) == [threw |-> FALSE, error |-> "", params |-> params]
        typeError(field) ==
            [threw |-> TRUE, params |-> NoParams,
             error |-> "Cannot read properties of null (reading '" \o field \o "')"]
    IN  CASE action \in {"read_file", "delete_file"} ->
                IF p.kind = "null" THEN typeError("file_path")
                ELSE ok([NoParams EXCEPT !.file_path =
                        Coalesce(p.file_path, Coalesce(p.path, Coalesce(p.directory, p.target)))])
          [] action \in {"write_file", "append_to_file"} ->
                IF p.kind = "null" THEN typeError("file_path")
                ELSE ok([NoParams EXCEPT
                        !.file_path = Coalesce(p.file_path, Coalesce(p.path, p.target)),
                        !.content = p.content])
          [] action \in {"copy_file", "move_file"} ->
                IF p.kind = "null" THEN typeError("source_path")
                ELSE ok([NoParams EXCEPT
                        !.source_path = Coalesce(p.source_path, Coalesce(p.path, p.from)),
                        !.destination_path =
                            Coalesce(p.destination_path, Coalesce(p.destination, p.to))])
          [] action = "list_directory" ->
                IF p.kind = "null" THEN typeError("dir_path")
                ELSE LET dir == Coalesce(p.dir_path,
                                         Coalesce(p.directory, Coalesce(p.path, p.target)))
                     IN  ok([NoParams EXCEPT !.dir_path = IF dir # "" THEN dir ELSE "."])
          [] action = "edit_file" ->
                IF p.kind = "null" THEN typeError("file_path")
                ELSE ok([NoParams EXCEPT
                        !.file_path = Coalesce(p.file_path, Coalesce(p.path, p.target)),
                        !.edits = keptEdits(p.edits)])
          [] OTHER -> ok(NoParams)

\* a FileOperationResult
FileResult(success, message, content, error) ==
    [success |-> success, message |-> message, content |-> content, error |-> error]

Failure(error) == FileResult(FALSE, "", "", error)

\* what a call of a function gives: a value, or a thrown error
Returned(value) == [threw |-> FALSE, error |-> "", value |-> value]
Thrown(error) == [threw |-> TRUE, error |-> error, value |-> Failure("")]

\* ensureString(value, field) fails: the field is missing or blank
MissingString(value) == Trim(value) = ""

\* the executors of buildTooling's registry; fm is what the FileManager method answers
executor(action, params, fm) ==
    CASE action \in {"read_file", "delete_file", "write_file", "append_to_file"} ->
            IF MissingString(params.file_path) THEN Thrown("file_path is required")
            ELSE Returned(fm)
      [] action \in {"copy_file", "move_file"} ->
            IF MissingString(params.source_path) THEN Thrown("source_path is required")
            ELSE IF MissingString(params.destination_path)
                 THEN Thrown("destination_path is required")
                 ELSE Returned(fm)
      [] action = "list_directory" -> Returned(fm)
      [] action = "edit_file" ->
            IF MissingString(params.file_path) THEN Thrown("file_path is required")
            ELSE IF Len(params.edits) = 0 THEN Returned(Failure("No edits provided."))
                 ELSE Returned(fm)

\* ToolCallHandler.execute (through GeneralMCPHandler.executeTool); invoked tells
\* whether an executor of the registry was called
toolCallHandlerExecute(action, params, fm) ==
    IF action \notin registry
    THEN [call |-> Thrown("Unknown tool action: " \o action), invoked |-> FALSE]
    ELSE [call |-> executor(action, params, fm), invoked |-> TRUE]

\* executeFileTool: every value the registry's executors return is a FileOperationResult
executeFileTool(action, params, fm) == toolCallHandlerExecute(action, params, fm)

caughtOrResult(ran, params) ==
    [result |-> IF ran.call.threw THEN Failure(ran.call.error) ELSE ran.call.value,
     invoked |-> ran.invoked, params |-> params]

ensuredResult(action, ensured, fm) ==
    IF ensured.threw
    THEN [result |-> Failure(ensured.error), invoked |-> FALSE, params |-> NoParams]
    ELSE caughtOrResult(executeFileTool(action, ensured.params, fm), ensured.params)

\* the try/catch of processOutcome around ensureToolParameters and executeFileTool:
\* the result handed to buildToolOutputs, and the executor invocation if there was one
toolResult(action, args, fm) == ensuredResult(action, ensureToolParameters(action, args), fm)

toolOutputLines(result) ==
    (IF result.message # "" THEN << result.message >> ELSE << >>)
    \o (IF result.content # "" THEN << result.content >> ELSE << >>)
    \o (IF ~result.success /\ result.error # "" THEN << "Error: " \o result.error >> ELSE << >>)

conversationText(action, result, bodyText) ==
    IF bodyText # "" THEN "Tool result for " \o action \o ":\n" \o bodyText
    ELSE IF result.success THEN "Tool result for " \o action \o ": Success"
    ELSE "Tool result for " \o action \o ": FAILED - "
         \o (IF result.error # "" THEN result.error ELSE "Unknown error")

\* a conversationText built from the joined lines as they are
buildUntrimmed(action, result) ==
    conversationText(action, result, Join(toolOutputLines(result), "\n"))

\* conversationText of buildToolOutputs
buildToolOutputs(action, result) ==
    conversationText(action, result, Trim(Join(toolOutputLines(result), "\n")))

\* the for loop of processOutcome: the first call at or after position i that is not
\* skipped by `if (!normalizedAction) continue`, Len(calls) + 1 when there is none
RECURSIVE nextCall(_, _)
nextCall(calls, i) ==
    IF i > Len(calls) THEN i
    ELSE IF normalizedAction(calls[i].name) = "" THEN nextCall(calls, i + 1)
    ELSE i

\* a for loop that is left when a call fails
callAfterAbort(calls, i, result) ==
    IF result.success THEN nextCall(calls, i + 1) ELSE Len(calls) + 1

\* the call the for loop goes on with after the call at position i gave result
callAfter(calls, i, result) == nextCall(calls, i + 1)

\* getToolCalls: outcome.toolCalls ?? outcome.message.toolCalls ?? []
getToolCalls(outcome) ==
    IF Len(outcome.toolCalls) > 0 THEN outcome.toolCalls ELSE outcome.message.toolCalls

\* hosts that are not shown the turns that carry the error prefix
appendUnlessError(log, message) ==
    IF message.role = "system" \/ StartsWith(message.content, "# ") THEN log
    ELSE Append(log, [type |-> "message", role |-> message.role, content |-> message.content])

\* appendMessageToHosts: toPanelMessage renders every turn but a system turn
appendMessageToHosts(log, message) ==
    IF message.role = "system" THEN log
    ELSE Append(log, [type |-> "message", role |-> message.role, content |-> message.content])

\* a SessionRecord; createdAt and updatedAt, which nothing reads but the list shown to
\* the user, are left out
SessionRecord(id, title, messages) == [id |-> id, title |-> title, messages |-> messages]

\* the longest title deriveTitleFromMessages leaves uncut
maxLength == 42

\* the three characters deriveTitleFromMessages appends to a title it cuts: U+00E2,
\* U+20AC and U+00A6 in the source
titleCut == "~~~"

\* the content of the first turn of the role that is not blank, or ""
firstMeaningful(messages, role) ==
    IF \E i \in 1..Len(messages) : messages[i].role = role /\ Trim(messages[i].content) # ""
    THEN messages[CHOOSE i \in 1..Len(messages) :
                     /\ messages[i].role = role /\ Trim(messages[i].content) # ""
                     /\ \A j \in 1..(i - 1) :
                           ~(messages[j].role = role /\ Trim(messages[j].content) # "")].content
    ELSE ""

sanitizedTitle(sanitized) ==
    IF Len(sanitized) > maxLength THEN TrimEnd(SliceTo(sanitized, maxLength)) \o titleCut
    ELSE sanitized

\* SessionManager.deriveTitleFromMessages; undefined is ""
deriveTitleFromMessages(messages) ==
    sanitizedTitle(Trim(CollapseSpaces(
        IF firstMeaningful(messages, "user") # "" THEN firstMeaningful(messages, "user")
        ELSE firstMeaningful(messages, "assistant"))))

\* SessionManager.updateSessionMessages on the session list
updateSessionMessages(list, sessionId, messages) ==
    [i \in 1..Len(list) |->
        IF list[i].id = sessionId
        THEN [list[i] EXCEPT !.messages = messages,
                             !.title = IF deriveTitleFromMessages(messages) # ""
                                       THEN deriveTitleFromMessages(messages) ELSE @]
        ELSE list[i]]

\* SessionManager.renameSession on the session list
renameSession(list, sessionId, title) ==
    [i \in 1..Len(list) |->
        IF list[i].id = sessionId
        THEN [list[i] EXCEPT !.title = IF Trim(title) # "" THEN Trim(title) ELSE @]
        ELSE list[i]]

\* the SessionManager's fields
Manager(list, active) == [sessions |-> list, activeSessionId |-> active]

\* SessionManager.setActiveSession
setActiveSession(m, sessionId) ==
    IF \E i \in 1..Len(m.sessions) : m.sessions[i].id = sessionId
    THEN [m EXCEPT !.activeSessionId = sessionId]
    ELSE m

\* SessionManager.createSession: id is the id made of the clock and a random number, a
\* title that is undefined is ""
createSession(m, id, title, prompt) ==
    setActiveSession(
        [m EXCEPT !.sessions = << SessionRecord(id, IF title = "" THEN "New Chat" ELSE title,
                                                << SystemMessage(prompt) >>) >> \o @],
        id)

\* the filter of deleteSession and what follows it
removeSession(m, sessionId) ==
    LET kept == SelectSeqIdx(m.sessions,
                             {i \in 1..Len(m.sessions) : m.sessions[i].id # sessionId}, 1)
    IN  [sessions |-> kept,
         activeSessionId |-> IF m.activeSessionId # sessionId THEN m.activeSessionId
                             ELSE IF Len(kept) > 0 THEN kept[1].id ELSE ""]

\* a deleteSession that removes the last session as well
deleteLast(m, sessionId) == removeSession(m, sessionId)

\* SessionManager.deleteSession
deleteSession(m, sessionId) ==
    IF Len(m.sessions) <= 1 THEN m ELSE removeSession(m, sessionId)

\* SessionManager.ensureBootstrapped on the fields read from the workspace storage; id
\* is the id of the session it creates when the storage holds none
ensureBootstrapped(m, id, defaultSystemPrompt) ==
    LET made == IF Len(m.sessions) = 0 THEN createSession(m, id, "", defaultSystemPrompt)
                ELSE m
    IN  IF \E i \in 1..Len(made.sessions) : made.sessions[i].id = made.activeSessionId
        THEN made
        ELSE [made EXCEPT !.activeSessionId = made.sessions[1].id]

\* persistActiveSession of the extension
persistActiveSession(list, active, conversation) ==
    IF active = "" THEN list ELSE updateSessionMessages(list, active, conversation)

(***************************************************************************)
(* The provider adapter (OpenAIProvider, chat-completions path).           *)
(***************************************************************************)
\* usage of parseChatCompletionsResponse: usageRaw is the vendor's usage object, with
\* -1 for a count it leaves out
parseUsage(usageRaw) ==
    [promptTokens |-> usageRaw.prompt_tokens,
     completionTokens |-> usageRaw.completion_tokens,
     totalTokens |->
        IF usageRaw.total_tokens >= 0 THEN usageRaw.total_tokens
        ELSE IF usageRaw.prompt_tokens >= 0 \/ usageRaw.completion_tokens >= 0
             THEN Max(0, usageRaw.prompt_tokens) + Max(0, usageRaw.completion_tokens)
             ELSE -1]

\* a ProviderResponse
ProviderResponse(message, usage, calls) ==
    [message |-> message, usage |-> usage, toolCalls |-> calls]

\* OpenAIProvider.parseChatCompletionsResponse
parseChatCompletionsResponse(data) ==
    ProviderResponse(AssistantMessage(data.content, NoUsage, data.tool_calls),
                     parseUsage(data.usage), data.tool_calls)

\* an adapter that throws its transport failures
sendChatThrows(transport) ==
    IF transport.kind = "ok" THEN Returned(parseChatCompletionsResponse(transport.data))
    ELSE [threw |-> TRUE,
          error |-> IF transport.kind = "cancel" THEN "Request cancelled by user"
                    ELSE transport.friendly,
          value |-> ProviderResponse(AssistantMessage("", NoUsage, << >>), NoUsage, << >>)]

\* OpenAIProvider.sendChatCompletionsAPI: transport is what the HTTP call came to, a
\* reply of the vendor, a failure (network error, non-2xx status, vendor error) or a
\* cancelled request
sendChat(transport) ==
    CASE transport.kind = "ok" -> Returned(parseChatCompletionsResponse(transport.data))
      [] transport.kind = "cancel" ->
            [threw |-> TRUE, error |-> "Request cancelled by user",
             value |-> ProviderResponse(AssistantMessage("", NoUsage, << >>), NoUsage, << >>)]
      [] transport.kind = "failure" ->
            Returned(ProviderResponse(
                AssistantMessage("# OpenAI error: " \o transport.friendly, NoUsage, << >>),
                NoUsage, << >>))

\* what providerFactory and sendChat together come to in RequestHandler: the factory
\* throws when no API key is configured
callProvider(transport) ==
    IF transport.kind = "nokey"
    THEN [threw |-> TRUE,
          error |-> "OpenAI API key not configured. Use the API Keys panel or VS Code settings to add one.",
          value |-> ProviderResponse(AssistantMessage("", NoUsage, << >>), NoUsage, << >>)]
    ELSE sendChat(transport)

(***************************************************************************)
(* What the environment answers: the vendor's replies and the file         *)
(* system's results.                                                       *)
(***************************************************************************)
NoRawUsage == [prompt_tokens |-> -1, completion_tokens |-> -1, total_tokens |-> -1]

GoodArgs == "{\"file_path\":\"a.txt\"}"

\* the tool-call batches a vendor reply carries: a well-formed call, an alias with an
\* empty payload before a well-formed call, an unknown name, a call without a name
\* before and after a well-formed one, a payload that is JSON null, one that does not
\* parse, and one that is no object
Batches ==
    { << ToolCall("c1", "read_file", GoodArgs) >>,
      << ToolCall("c1", "list", ""), ToolCall("c2", "read_file", GoodArgs) >>,
      << ToolCall("c1", "frobnicate", GoodArgs) >>,
      << ToolCall("c1", "", GoodArgs), ToolCall("c2", "read_file", GoodArgs) >>,
      << ToolCall("c1", "list_directory", "{}"), ToolCall("c2", "", GoodArgs) >>,
      << ToolCall("c1", "read_file", "null") >>,
      << ToolCall("c1", "list_directory", "{bad") >>,
      << ToolCall("c1", "list_directory", "42") >> }

\* what the HTTP call of one provider call can come to
Transports ==
    { [kind |-> "ok", friendly |-> "",
       data |-> [content |-> "Done.", tool_calls |-> << >>, usage |-> NoRawUsage]] }
    \cup { [kind |-> "ok", friendly |-> "",
            data |-> [content |-> "", tool_calls |-> b, usage |-> NoRawUsage]] : b \in Batches }
    \cup { [kind |-> k, friendly |-> IF k = "failure" THEN "Network Error" ELSE "",
            data |-> [content |-> "", tool_calls |-> << >>, usage |-> NoRawUsage]]
           : k \in {"failure", "cancel", "nokey"} }

\* what a FileManager method answers
FileAnswers ==
    { FileResult(TRUE, "", "a.txt\nb.txt", ""),
      FileResult(FALSE, "", "", "ENOENT: no such file or directory") }

\* the prompts the user sends
Prompts == {"list files"}

(***************************************************************************)
(* FileManager: the workspace root, path.resolve, the containment test of  *)
(* resolve() and the methods, on a disk that is the set of the paths that  *)
(* hold a file.                                                            *)
(***************************************************************************)
\* FileManager.workspaceRoot: the fsPath of the open workspace folder
workspaceRoot == "/ws"

\* String.prototype.split(sep) for a separator of one character
RECURSIVE SplitOn(_, _)
SplitOn(s, sep) ==
    IF \E i \in 1..Len(s) : CharAt(s, i) = sep
    THEN LET i == CHOOSE k \in 1..Len(s) :
                    CharAt(s, k) = sep /\ \A j \in 1..(k - 1) : CharAt(s, j) # sep
         IN  << SliceTo(s, i - 1) >> \o SplitOn(SliceFrom(s, i), sep)
    ELSE << s >>

\* the normalisation path.resolve applies to the segments of an absolute path: empty
\* segments and "." are dropped, ".." drops the segment before it (none at the root)
RECURSIVE normalizeSegments(_, _)
normalizeSegments(segments, done) ==
    IF Len(segments) = 0 THEN done
    ELSE IF segments[1] \in {"", "."} THEN normalizeSegments(Tail(segments), done)
    ELSE IF segments[1] = ".."
         THEN normalizeSegments(Tail(segments), SubSeq(done, 1, Len(done) - 1))
         ELSE normalizeSegments(Tail(segments), Append(done, segments[1]))

\* path.resolve(root, target) of the posix path module for an absolute root
pathResolve(root, target) ==
    "/" \o Join(normalizeSegments(SplitOn(IF StartsWith(target, "/") THEN target
                                          ELSE root \o "/" \o target, "/"),
                                  << >>), "/")

\* the containment test of FileManager.resolve: candidate.startsWith(this.workspaceRoot)
contained(candidate, root) == StartsWith(candidate, root)

\* FileManager.resolve: the full path, or the error it throws
resolveCandidate(target, candidate) ==
    IF workspaceRoot = "" THEN [threw |-> TRUE, path |-> "", error |-> "Workspace folder not set."]
    ELSE IF ~contained(candidate, workspaceRoot)
         THEN [threw |-> TRUE, path |-> "",
               error |-> "Path outside workspace is not allowed: " \o target]
         ELSE [threw |-> FALSE, path |-> candidate, error |-> ""]

resolve(target) == resolveCandidate(target, pathResolve(workspaceRoot, target))

\* the directories of the disk; the fs functions the methods call fail on them where
\* they expect a file, and readdir fails on anything else
Directories == {"/", "/ws", "/ws-old", "/etc"}

\* the files on disk at activation
InitialFiles == {"/ws/a.txt", "/ws-old/secret", "/etc/passwd"}

\* disk.files: the paths that hold a file; disk.touched: the paths the FileManager handed
\* to an fs function; disk.last: the last operation, the locations its targets resolve to
\* by path.resolve, and whether it returned success
NoOperation == [method |-> "none", locations |-> {}, success |-> FALSE]

InitialDisk == [files |-> InitialFiles, touched |-> {}, last |-> NoOperation]

\* the targets the tools are called with
Targets == {"sub/../a.txt", ".", "../etc/passwd", "../ws-old/secret", "/ws-old/new.txt",
            "/ws/b.txt"}

\* the disk after a method whose resolve() threw: fail(error), no fs function is called
rejected(d, method, locations) ==
    [d EXCEPT !.last = [method |-> method, locations |-> locations, success |-> FALSE]]

\* the disk after a method handed the paths to fs functions that left the files given
performed(d, method, locations, paths, files, success) ==
    [files |-> files, touched |-> d.touched \cup paths,
     last |-> [method |-> method, locations |-> locations, success |-> success]]

\* FileManager.readFile
readFile(d, target, r) ==
    IF r.threw THEN rejected(d, "readFile", {pathResolve(workspaceRoot, target)})
    ELSE performed(d, "readFile", {r.path}, {r.path}, d.files, r.path \in d.files)

\* FileManager.writeFile, appendFile: fs.mkdir of the directory, then the file is written
writeFile(d, method, target, r) ==
    IF r.threw THEN rejected(d, method, {pathResolve(workspaceRoot, target)})
    ELSE IF r.path \in Directories
         THEN performed(d, method, {r.path}, {r.path}, d.files, FALSE)
         ELSE performed(d, method, {r.path}, {r.path}, d.files \cup {r.path}, TRUE)

\* FileManager.editFile with edits: the file is read and written back
editFile(d, target, r) ==
    IF r.threw THEN rejected(d, "editFile", {pathResolve(workspaceRoot, target)})
    ELSE performed(d, "editFile", {r.path}, {r.path}, d.files, r.path \in d.files)

\* FileManager.deleteFile
deleteFile(d, target, r) ==
    IF r.threw THEN rejected(d, "deleteFile", {pathResolve(workspaceRoot, target)})
    ELSE performed(d, "deleteFile", {r.path}, {r.path}, d.files \ {r.path},
                   r.path \in d.files)

\* FileManager.copyFile and moveFile: both paths are resolved before fs is called
transferFile(d, method, source, destination, rs, rd) ==
    IF rs.threw \/ rd.threw
    THEN rejected(d, method, {pathResolve(workspaceRoot, source),
                             pathResolve(workspaceRoot, destination)})
    ELSE IF rs.path \notin d.files \/ rd.path \in Directories
         THEN performed(d, method, {rs.path, rd.path}, {rs.path, rd.path}, d.files, FALSE)
         ELSE performed(d, method, {rs.path, rd.path}, {rs.path, rd.path},
                        (IF method = "moveFile" THEN d.files \ {rs.path} ELSE d.files)
                           \cup {rd.path},
                        TRUE)

\* FileManager.listDirectory
listDirectory(d, target, r) ==
    IF r.threw THEN rejected(d, "listDirectory", {pathResolve(workspaceRoot, target)})
    ELSE performed(d, "listDirectory", {r.path}, {r.path}, d.files, r.path \in Directories)

(***************************************************************************)
(* The state after activation: the GeneralMCPHandler is constructed, the   *)
(* session store is bootstrapped with one session, and that session's      *)
(* transcript is loaded.                                                   *)
(***************************************************************************)
\* the record of the last provider call: how it ended, whether the call threw, whether
\* the GeneralMCPHandler method that made it threw to its caller, and how many assistant
\* turns its handling appended to the history
NoResponse == [kind |-> "none", threw |-> FALSE, escaped |-> FALSE, appended |-> 0]

\* no adapter has exchanged anything with its vendor yet
NoWire == [adapter |-> "none", messages |-> << >>, sent |-> FALSE, request |-> << >>,
           data |-> << >>, response |-> << >>]

NoStop == [phase |-> "none", batch |-> -1, size |-> -1, done |-> -1, executed |-> -1]

Init ==
    /\ options \in OptionChoices
    /\ LET booted == << SystemMessage(systemPrompt) >>
           cs == load(booted, systemPrompt, options, NoSummary)
       IN  /\ history = cs.history
           /\ summaryLines = cs.lines
           /\ summaryHashes = cs.hashes
           /\ sessions = << SessionRecord("s1", "New Chat", booted) >>
    /\ activeSessionId = "s1"
    /\ pc = "idle"
    /\ toolCalls = << >>
    /\ callIndex = 0
    /\ sent = << >>
    /\ hostLog = << >>
    /\ execLog = << >>
    /\ batchLog = << >>
    /\ lastResponse = NoResponse
    /\ continuations = 0
    /\ providerCalls = 0
    /\ stopRequested = FALSE
    /\ stopPoint = NoStop
    /\ commandPc = "idle"
    /\ disk = InitialDisk
    /\ aliases = {}
    /\ wire = NoWire
    /\ cycleSession = ""
    /\ created = 0

\* the summaryLines and summaryHashes the ContextManager holds
Summary == [lines |-> summaryLines, hashes |-> summaryHashes]

SetConv(cs) ==
    /\ history' = cs.history
    /\ summaryLines' = cs.lines
    /\ summaryHashes' = cs.hashes

(***************************************************************************)
(* The interface of ConversationHandler, called in any order.              *)
(***************************************************************************)
ConvInitialize ==
    /\ SetConv(initialize(systemPrompt, options, Summary))
    /\ UNCHANGED << wire, cycleSession, created, options, disk, aliases, loopVars, sessionVars >>

ConvAddUserMessage ==
    /\ Len(history) < MaxHistory
    /\ \E content \in ApiUserTexts : history' = addUserMessage(history, content)
    /\ UNCHANGED << wire, cycleSession, created, summaryLines, summaryHashes, options, disk, aliases, loopVars, sessionVars >>

ConvAddAssistantMessage ==
    /\ Len(history) < MaxHistory
    /\ \E m \in ApiAssistantTurns :
          history' = addAssistantMessage(history, m.content, m.usage, m.toolCalls)
    /\ UNCHANGED << wire, cycleSession, created, summaryLines, summaryHashes, options, disk, aliases, loopVars, sessionVars >>

ConvAddToolResult ==
    /\ Len(history) < MaxHistory
    /\ \E m \in ApiToolTurns :
          history' = addToolResult(history, m.content, m.name, m.toolCallId)
    /\ UNCHANGED << wire, cycleSession, created, summaryLines, summaryHashes, options, disk, aliases, loopVars, sessionVars >>

ConvLoad ==
    /\ \E loaded \in ApiLoads : SetConv(load(loaded, systemPrompt, options, Summary))
    /\ UNCHANGED << wire, cycleSession, created, options, disk, aliases, loopVars, sessionVars >>

ConvOptimize ==
    /\ SetConv(convOptimize(history, summaryLines, summaryHashes, options))
    /\ UNCHANGED << wire, cycleSession, created, options, disk, aliases, loopVars, sessionVars >>

NextConv ==
    \/ ConvInitialize
    \/ ConvAddUserMessage
    \/ ConvAddAssistantMessage
    \/ ConvAddToolResult
    \/ ConvLoad
    \/ ConvOptimize

SpecConv == Init /\ [][NextConv]_vars

(***************************************************************************)
(* The agent loop: handlePrompt and processOutcome of the extension with   *)
(* GeneralMCPHandler and RequestHandler under them.  A loop state is the   *)
(* record of what the loop reads and writes; the operators below give the  *)
(* loop state a stretch of code between two awaits leaves.                 *)
(***************************************************************************)
LoopState ==
    [history |-> history, lines |-> summaryLines, hashes |-> summaryHashes, pc |-> pc,
     toolCalls |-> toolCalls, callIndex |-> callIndex, sent |-> sent, hostLog |-> hostLog,
     execLog |-> execLog, batchLog |-> batchLog, lastResponse |-> lastResponse,
     continuations |-> continuations, providerCalls |-> providerCalls,
     sessions |-> sessions]

SetLoop(st) ==
    /\ history' = st.history
    /\ summaryLines' = st.lines
    /\ summaryHashes' = st.hashes
    /\ pc' = st.pc
    /\ toolCalls' = st.toolCalls
    /\ callIndex' = st.callIndex
    /\ sent' = st.sent
    /\ hostLog' = st.hostLog
    /\ execLog' = st.execLog
    /\ batchLog' = st.batchLog
    /\ lastResponse' = st.lastResponse
    /\ continuations' = st.continuations
    /\ providerCalls' = st.providerCalls
    /\ sessions' = st.sessions
    \* setLoadingForHosts(false) at the end of the cycle resets the panel's isStopping
    /\ stopRequested' = (IF st.pc = "idle" THEN FALSE ELSE stopRequested)

withConv(st, cs) == [st EXCEPT !.history = cs.history, !.lines = cs.lines, !.hashes = cs.hashes]

\* RequestHandler: conversationHandler.optimize(), then the provider is called with
\* optimized.messages, which is getHistory() after the swap
sendOptimized(st, result, phase) ==
    [withConv(st, swapIfOptimized(st.history, result)) EXCEPT
        !.sent = swapIfOptimized(st.history, result).history,
        !.pc = phase, !.providerCalls = @ + 1]

requestSend(st, opts, phase) ==
    sendOptimized(st, optimize(st.history, st.lines, st.hashes, opts), phase)

\* RequestHandler.handle up to the provider call
handle(st, opts, prompt) ==
    requestSend([st EXCEPT !.history = addUserMessage(@, prompt)], opts, "handle")

\* mcp.continueAfterTool() up to the provider call
continueAfterTool(st, opts) ==
    requestSend([st EXCEPT !.continuations = @ + 1], opts, "continue")

\* the for loop of processOutcome goes on with the call at position next, or is over
forLoop(st, opts, next) ==
    IF next > Len(st.toolCalls)
    THEN continueAfterTool([st EXCEPT !.callIndex = next], opts)
    ELSE [st EXCEPT !.callIndex = next, !.pc = "tools"]

\* the body of the while loop of processOutcome after its head
whileBody(st, opts, calls) ==
    IF Len(calls) = 0 THEN [st EXCEPT !.pc = "idle"]
    ELSE forLoop([st EXCEPT !.toolCalls = calls, !.execLog = << >>, !.batchLog = << >>],
                 opts, nextCall(calls, 1))

\* the head of the while loop of processOutcome
loopHead(st, opts, active, outcome) ==
    whileBody([st EXCEPT !.hostLog = appendMessageToHosts(@, outcome.message),
                         !.sessions = persistActiveSession(@, active, st.history)],
              opts, getToolCalls(outcome))

\* how a provider call ended, for the record of the last response
responseKind(transport) ==
    IF transport.kind = "ok"
    THEN (IF Len(transport.data.tool_calls) > 0 THEN "tools" ELSE "final")
    ELSE transport.kind

\* RequestHandler.handle and continueConversation after the provider's answer
answered(st, opts, active, kind, response) ==
    loopHead([st EXCEPT !.history = addAssistantMessage(@, response.message.content,
                                                        response.usage, response.toolCalls),
                        !.lastResponse = [kind |-> kind, threw |-> FALSE,
                                          escaped |-> FALSE, appended |-> 1]],
             opts, active,
             [message |-> response.message, toolCalls |-> response.toolCalls])

\* the catch of GeneralMCPHandler.handlePrompt: the fallback turn, then optimize()
fallback(st, opts, active, kind, content) ==
    loopHead(withConv([st EXCEPT !.lastResponse = [kind |-> kind, threw |-> TRUE,
                                                    escaped |-> FALSE, appended |-> 1]],
                      convOptimize(addAssistantMessage(st.history, content, NoUsage, << >>),
                                   st.lines, st.hashes, opts)),
             opts, active,
             [message |-> AssistantMessage(content, NoUsage, << >>), toolCalls |-> << >>])

\* GeneralMCPHandler.continueAfterTool has no catch: what RequestHandler throws reaches
\* the catch of processOutcome around mcp.continueAfterTool()
continuationFailed(st, active, kind, content) ==
    [st EXCEPT !.hostLog = appendMessageToHosts(@, AssistantMessage(content, NoUsage, << >>)),
               !.sessions = persistActiveSession(@, active, st.history),
               !.lastResponse = [kind |-> kind, threw |-> TRUE, escaped |-> TRUE,
                                    appended |-> 0],
               !.pc = "idle"]

\* what the answer of the provider call leaves
responded(st, opts, active, kind, call) ==
    IF ~call.threw THEN answered(st, opts, active, kind, call.value)
    ELSE IF st.pc = "handle" THEN fallback(st, opts, active, kind, "# " \o call.error)
    ELSE continuationFailed(st, active, kind, "# " \o call.error)

\* the turn addToolResult appended, as the batch log keeps it
batchEntry(i, appended, tr) ==
    [pos |-> i, toolCallId |-> appended.toolCallId, name |-> appended.name,
     role |-> appended.role, content |-> appended.content,
     success |-> tr.result.success, invoked |-> tr.invoked, result |-> tr.result]

\* one pass of the for loop of processOutcome from the parsed arguments on
toolDone(st, opts, active, i, action, tr, h) ==
    forLoop([st EXCEPT !.history = h,
                       !.sessions = persistActiveSession(@, active, h),
                       !.execLog = IF tr.invoked
                                   THEN Append(@, [pos |-> i, action |-> action,
                                                   params |-> tr.params])
                                   ELSE @,
                       !.batchLog = Append(@, batchEntry(i, h[Len(h)], tr))],
            opts, callAfter(st.toolCalls, i, tr.result))

toolTried(st, opts, active, i, call, action, tr) ==
    toolDone(st, opts, active, i, action, tr,
             addToolResult(st.history, buildToolOutputs(action, tr.result), action, call.id))

toolCalled(st, opts, active, i, call, action, fm) ==
    toolTried(st, opts, active, i, call, action,
              toolResult(action, parseToolArguments(call), fm))

\* one pass of the for loop of processOutcome for the call at position callIndex
toolPass(st, opts, active, fm) ==
    toolCalled(st, opts, active, st.callIndex, st.toolCalls[st.callIndex],
               normalizedAction(st.toolCalls[st.callIndex].name), fm)

(***************************************************************************)
(* The steps of the agent loop.                                            *)
(***************************************************************************)
\* the user sends a prompt: handlePrompt of the extension up to the provider call
HandlePrompt ==
    /\ pc = "idle"
    /\ providerCalls < MaxProviderCalls
    /\ \E prompt \in Prompts :
          \E st \in {handle([LoopState EXCEPT !.hostLog = << >>, !.execLog = << >>,
                                              !.batchLog = << >>, !.toolCalls = << >>,
                                              !.callIndex = 0, !.continuations = 0,
                                              !.lastResponse = NoResponse],
                            options, prompt)} : SetLoop(st)
    /\ stopPoint' = NoStop
    /\ cycleSession' = activeSessionId
    /\ UNCHANGED << wire, created, options, disk, aliases, commandPc, activeSessionId >>

\* the provider call ends: the rest of RequestHandler.handle or continueConversation,
\* and processOutcome up to the next await
ProviderResponds ==
    /\ pc \in {"handle", "continue"}
    /\ \E transport \in Transports :
          /\ Len(transport.data.tool_calls) > 0 => providerCalls < MaxProviderCalls
          /\ \E st \in {responded(LoopState, options, activeSessionId,
                                  responseKind(transport), callProvider(transport))} :
                SetLoop(st)
    /\ UNCHANGED << wire, cycleSession, created, options, disk, aliases, commandPc, activeSessionId, stopPoint >>

\* the file system answers the pending tool call: processOutcome up to the next await
ToolReturns ==
    /\ pc = "tools"
    /\ \E fm \in FileAnswers :
          \E st \in {toolPass(LoopState, options, activeSessionId, fm)} : SetLoop(st)
    /\ UNCHANGED << wire, cycleSession, created, options, disk, aliases, commandPc, activeSessionId, stopPoint >>

\* the user presses Stop while a cycle runs: the panel posts stopProcess, for which
\* panelCallbacks holds no onStopProcess
StopProcess ==
    /\ pc # "idle"
    /\ ~stopRequested
    /\ stopRequested' = TRUE
    /\ stopPoint' = [phase |-> pc, batch |-> continuations, size |-> Len(toolCalls),
                     done |-> Len(batchLog), executed |-> Len(execLog)]
    /\ UNCHANGED << wire, cycleSession, created, convVars, disk, aliases, commandPc, pc, toolCalls, callIndex, sent, hostLog, execLog,
                    batchLog, lastResponse, continuations, providerCalls, sessionVars >>

Next ==
    \/ HandlePrompt
    \/ ProviderResponds
    \/ ToolReturns
    \/ StopProcess

Spec == Init /\ [][Next]_vars

(***************************************************************************)
(* The agent loop of a GeneralMCPHandler whose embedder sets the options   *)
(* of the ContextManager (MCPOptions.contextOptions), the token threshold  *)
(* included, with a provider that reports its usage and a session store    *)
(* that is read back on activation.                                        *)
(***************************************************************************)
\* provider calls the model of this configuration follows
MaxTurnCalls == 5

\* the usage total a reply reports when it reports a large one
LargeUsage == 45000

\* contextOptions: the settings' defaults of summaryThreshold and summaryRetention with a
\* token threshold, and a short length threshold without one
TurnOptions ==
    { [enabled |-> TRUE, maxInstances |-> 1, summaryEnabled |-> TRUE,
       summaryThreshold |-> 12, summaryRetention |-> 6, summaryTokenThreshold |-> 40000],
      [enabled |-> TRUE, maxInstances |-> 1, summaryEnabled |-> TRUE,
       summaryThreshold |-> 4, summaryRetention |-> 2, summaryTokenThreshold |-> 0] }

\* the vendor's replies: a final answer without usage and one that reports a large
\* usage, a turn that announces one tool call, and a batch of two calls
TurnTransports ==
    { [kind |-> "ok", friendly |-> "",
       data |-> [content |-> "ok", tool_calls |-> << >>, usage |-> NoRawUsage]],
      [kind |-> "ok", friendly |-> "",
       data |-> [content |-> "Done.", tool_calls |-> << >>,
                 usage |-> [prompt_tokens |-> -1, completion_tokens |-> -1,
                            total_tokens |-> LargeUsage]]],
      [kind |-> "ok", friendly |-> "",
       data |-> [content |-> "Reading", tool_calls |-> << ReadCall >>, usage |-> NoRawUsage]],
      [kind |-> "ok", friendly |-> "",
       data |-> [content |-> "", usage |-> NoRawUsage,
                 tool_calls |-> << ToolCall("c1", "read_file", GoodArgs),
                                   ToolCall("c2", "read_file", GoodArgs) >>]] }

\* the file system's answer to the tool calls of this configuration
TurnFileAnswer == FileResult(TRUE, "", "abc\n", "")

\* the messages the session store holds for a session ( << >> when it holds none )
storedMessages(list, sessionId) ==
    IF \E i \in 1..Len(list) : list[i].id = sessionId
    THEN list[CHOOSE i \in 1..Len(list) : list[i].id = sessionId].messages
    ELSE << >>

\* what the workspace storage holds on activation besides the active session: a session
\* without messages and one whose first message is no system message
StoredSessions ==
    << SessionRecord("s2", "New Chat", << >>),
       SessionRecord("s3", "hi", << UserMessage("hi"), AssistantMessage("ok", NoUsage, << >>) >>) >>

InitTurns ==
    /\ options \in TurnOptions
    /\ LET booted == << SystemMessage(systemPrompt) >>
           cs == load(booted, systemPrompt, options, NoSummary)
       IN  /\ history = cs.history
           /\ summaryLines = cs.lines
           /\ summaryHashes = cs.hashes
           /\ sessions = << SessionRecord("s1", "New Chat", booted) >> \o StoredSessions
    /\ activeSessionId = "s1"
    /\ pc = "idle"
    /\ toolCalls = << >>
    /\ callIndex = 0
    /\ sent = << >>
    /\ hostLog = << >>
    /\ execLog = << >>
    /\ batchLog = << >>
    /\ lastResponse = NoResponse
    /\ continuations = 0
    /\ providerCalls = 0
    /\ stopRequested = FALSE
    /\ stopPoint = NoStop
    /\ commandPc = "idle"
    /\ disk = InitialDisk
    /\ aliases = {}
    /\ wire = NoWire
    /\ cycleSession = ""
    /\ created = 0

\* the user sends a prompt, while fewer than maxCalls provider calls were made
PromptWithin(maxCalls) ==
    /\ pc = "idle"
    /\ providerCalls < maxCalls
    /\ \E prompt \in Prompts :
          \E st \in {handle([LoopState EXCEPT !.hostLog = << >>, !.execLog = << >>,
                                              !.batchLog = << >>, !.toolCalls = << >>,
                                              !.callIndex = 0, !.continuations = 0,
                                              !.lastResponse = NoResponse],
                            options, prompt)} : SetLoop(st)
    /\ cycleSession' = activeSessionId
    /\ UNCHANGED << wire, created, options, disk, aliases, commandPc, activeSessionId, stopPoint >>

\* the provider answers
RespondsWithin(maxCalls) ==
    /\ pc \in {"handle", "continue"}
    /\ \E transport \in TurnTransports :
          /\ Len(transport.data.tool_calls) > 0 => providerCalls < maxCalls
          /\ \E st \in {responded(LoopState, options, activeSessionId,
                                  responseKind(transport), callProvider(transport))} :
                SetLoop(st)
    /\ UNCHANGED << wire, cycleSession, created, options, disk, aliases, commandPc, activeSessionId, stopPoint >>

TurnPrompt == PromptWithin(MaxTurnCalls)

TurnResponds == RespondsWithin(MaxTurnCalls)

\* the pending tool call is run
TurnToolReturns ==
    /\ pc = "tools"
    /\ \E st \in {toolPass(LoopState, options, activeSessionId, TurnFileAnswer)} : SetLoop(st)
    /\ UNCHANGED << wire, cycleSession, created, options, disk, aliases, commandPc, activeSessionId, stopPoint >>

\* the window is reloaded: activate() builds a new GeneralMCPHandler, whose ContextManager
\* is fresh, and loads the messages the session store holds for the active session
TurnReload ==
    /\ pc = "idle"
    /\ SetConv(load(storedMessages(sessions, activeSessionId), systemPrompt, options, Summary))
    /\ UNCHANGED << wire, cycleSession, created, options, disk, aliases, loopVars, sessionVars >>

NextTurns ==
    \/ TurnPrompt
    \/ TurnResponds
    \/ TurnToolReturns
    \/ TurnReload

SpecTurns == InitTurns /\ [][NextTurns]_vars

(***************************************************************************)
(* The same agent loop with the sessions of the store switched between     *)
(* cycles.                                                                 *)
(***************************************************************************)
\* provider calls the model follows across the sessions
MaxSessionCalls == 2

\* handleSwitchSession: the transcript is stored under the session that was active, the
\* chosen session becomes the active one and its stored messages are loaded
switchSession(persisted, sessionId, opts, cm) ==
    load(storedMessages(persisted, sessionId), systemPrompt, opts, cm)

SessionSwitch ==
    /\ pc = "idle"
    /\ \E i \in 1..Len(sessions) :
          /\ sessions[i].id # activeSessionId
          /\ activeSessionId' = sessions[i].id
          /\ \E persisted \in {persistActiveSession(sessions, activeSessionId, history)} :
                /\ sessions' = persisted
                /\ SetConv(switchSession(persisted, sessions[i].id, options, Summary))
    /\ UNCHANGED << wire, cycleSession, created, options, disk, aliases, loopVars >>

SessionPrompt == PromptWithin(MaxSessionCalls)

SessionResponds == RespondsWithin(MaxSessionCalls)

NextSessions ==
    \/ SessionPrompt
    \/ SessionResponds
    \/ TurnToolReturns
    \/ TurnReload
    \/ SessionSwitch

SpecSessions == InitTurns /\ [][NextSessions]_vars

(***************************************************************************)
(* The same agent loop with the idSiberCoder.sendPrompt command, which     *)
(* calls handlePrompt whenever the user confirms its input box; neither    *)
(* the command nor handlePrompt looks at whether a cycle is running.  The  *)
(* provider answers the command's prompt with text, so its cycle is one    *)
(* provider call.                                                          *)
(***************************************************************************)
\* provider calls the model follows with the command in use
MaxCommandCalls == 3

\* the answers of the provider that hold no tool call
FinalTransports == {transport \in TurnTransports : Len(transport.data.tool_calls) = 0}

\* sendPromptDisposable: handlePrompt(prompt) up to the provider call
CommandPrompt ==
    /\ commandPc = "idle"
    /\ providerCalls < MaxCommandCalls
    /\ \E prompt \in Prompts :
          \E st \in {handle(LoopState, options, prompt)} : SetLoop([st EXCEPT !.pc = pc])
    /\ commandPc' = "handle"
    /\ cycleSession' = activeSessionId
    /\ UNCHANGED << wire, created, options, disk, aliases, activeSessionId, stopPoint >>

\* the provider answers the command's prompt: the rest of handlePrompt
CommandResponds ==
    /\ commandPc = "handle"
    /\ \E transport \in FinalTransports :
          \E st \in {responded([LoopState EXCEPT !.pc = "handle"], options, activeSessionId,
                               responseKind(transport), callProvider(transport))} :
             SetLoop([st EXCEPT !.pc = pc])
    /\ commandPc' = "idle"
    /\ UNCHANGED << wire, cycleSession, created, options, disk, aliases, activeSessionId, stopPoint >>

PanelPrompt == PromptWithin(MaxCommandCalls)

PanelResponds == RespondsWithin(MaxCommandCalls)

NextCommand ==
    \/ PanelPrompt
    \/ PanelResponds
    \/ TurnToolReturns
    \/ CommandPrompt
    \/ CommandResponds

SpecCommand == InitTurns /\ [][NextCommand]_vars

(***************************************************************************)
(* The methods of the FileManager, called in any order with any target.    *)
(***************************************************************************)
ReadFile ==
    /\ \E target \in Targets : disk' = readFile(disk, target, resolve(target))
    /\ UNCHANGED << wire, cycleSession, created, convVars, loopVars, sessionVars, aliases >>

WriteFile ==
    /\ \E target \in Targets : disk' = writeFile(disk, "writeFile", target, resolve(target))
    /\ UNCHANGED << wire, cycleSession, created, convVars, loopVars, sessionVars, aliases >>

AppendFile ==
    /\ \E target \in Targets : disk' = writeFile(disk, "appendFile", target, resolve(target))
    /\ UNCHANGED << wire, cycleSession, created, convVars, loopVars, sessionVars, aliases >>

EditFile ==
    /\ \E target \in Targets : disk' = editFile(disk, target, resolve(target))
    /\ UNCHANGED << wire, cycleSession, created, convVars, loopVars, sessionVars, aliases >>

DeleteFile ==
    /\ \E target \in Targets : disk' = deleteFile(disk, target, resolve(target))
    /\ UNCHANGED << wire, cycleSession, created, convVars, loopVars, sessionVars, aliases >>

CopyFile ==
    /\ \E source \in Targets, destination \in Targets :
          disk' = transferFile(disk, "copyFile", source, destination,
                               resolve(source), resolve(destination))
    /\ UNCHANGED << wire, cycleSession, created, convVars, loopVars, sessionVars, aliases >>

MoveFile ==
    /\ \E source \in Targets, destination \in Targets :
          disk' = transferFile(disk, "moveFile", source, destination,
                               resolve(source), resolve(destination))
    /\ UNCHANGED << wire, cycleSession, created, convVars, loopVars, sessionVars, aliases >>

ListDirectory ==
    /\ \E target \in Targets : disk' = listDirectory(disk, target, resolve(target))
    /\ UNCHANGED << wire, cycleSession, created, convVars, loopVars, sessionVars, aliases >>

NextFiles ==
    \/ ReadFile
    \/ WriteFile
    \/ AppendFile
    \/ EditFile
    \/ DeleteFile
    \/ CopyFile
    \/ MoveFile
    \/ ListDirectory

SpecFiles == Init /\ [][NextFiles]_vars

(***************************************************************************)
(* The ConversationHandler and the SessionManager as objects that hold     *)
(* arrays: push changes an array in place, for every holder of it; map,    *)
(* filter, slice and the spread make a new array.                          *)
(***************************************************************************)
\* the transcript is one load() discards: it is empty or its first turn is no system turn
Discarded(loaded) == Len(loaded) = 0 \/ loaded[1].role # "system"

\* a load that keeps the array it is handed: this.history = history
keptArray(sessionId) == {sessionId}

\* the sessions that hold the array of history after load(session.messages, ...):
\* this.history = history.map((message) => ({ ...message })) is an array of its own
mappedArray(sessionId) == {}

\* the session store after history.push(): the sessions that hold the array see the turn
pushed(list, holders, h) ==
    [i \in 1..Len(list) |->
        IF list[i].id \in holders THEN [list[i] EXCEPT !.messages = h] ELSE list[i]]

\* the sessions that hold the array of history after ConversationHandler.optimize():
\* result.messages, which replaces history when the result is optimized, is a new array
heldAfterOptimize(holders, result) == IF result.optimized THEN {} ELSE holders

\* a prompt is appended after the answer to the one before, an answer after its prompt
StoreAddUserMessage ==
    /\ Len(history) < MaxHistory
    /\ history[Len(history)].role # "user"
    /\ \E content \in ApiUserTexts :
          /\ history' = addUserMessage(history, content)
          /\ sessions' = pushed(sessions, aliases, addUserMessage(history, content))
    /\ UNCHANGED << wire, cycleSession, created, summaryLines, summaryHashes, options, disk, aliases, loopVars,
                    activeSessionId >>

StoreAddAssistantMessage ==
    /\ Len(history) < MaxHistory
    /\ history[Len(history)].role = "user"
    /\ \E m \in {turn \in ApiAssistantTurns : turn.content = "ok"} :
          /\ history' = addAssistantMessage(history, m.content, m.usage, m.toolCalls)
          /\ sessions' = pushed(sessions, aliases,
                                addAssistantMessage(history, m.content, m.usage, m.toolCalls))
    /\ UNCHANGED << wire, cycleSession, created, summaryLines, summaryHashes, options, disk, aliases, loopVars,
                    activeSessionId >>

StoreOptimize ==
    /\ SetConv(convOptimize(history, summaryLines, summaryHashes, options))
    /\ aliases' = heldAfterOptimize(aliases,
                                    optimize(history, summaryLines, summaryHashes, options))
    /\ UNCHANGED << wire, cycleSession, created, options, disk, loopVars, sessionVars >>

\* persistActiveSession: updateSessionMessages stores a map() of getHistory()
StorePersist ==
    /\ sessions' = persistActiveSession(sessions, activeSessionId, history)
    /\ aliases' = aliases \ {activeSessionId}
    /\ UNCHANGED << wire, cycleSession, created, convVars, disk, loopVars, activeSessionId >>

\* handleSwitchSession
StoreSwitch ==
    /\ \E i \in 1..Len(sessions) :
          /\ sessions[i].id # activeSessionId
          /\ activeSessionId' = sessions[i].id
          /\ \E persisted \in {persistActiveSession(sessions, activeSessionId, history)} :
                /\ sessions' = persisted
                /\ SetConv(switchSession(persisted, sessions[i].id, options, Summary))
                /\ aliases' = IF Discarded(storedMessages(persisted, sessions[i].id))
                              THEN {} ELSE mappedArray(sessions[i].id)
    /\ UNCHANGED << wire, cycleSession, created, options, disk, loopVars >>

NextStore ==
    \/ StoreAddUserMessage
    \/ StoreAddAssistantMessage
    \/ StoreOptimize
    \/ StorePersist
    \/ StoreSwitch

SpecStore == InitTurns /\ [][NextStore]_vars

(***************************************************************************)
(* One conversation that is never loaded again: the agent loop of SpecTurns *)
(* without the reload.                                                     *)
(***************************************************************************)
NextPasses ==
    \/ TurnPrompt
    \/ TurnResponds
    \/ TurnToolReturns

SpecPasses == InitTurns /\ [][NextPasses]_vars

(***************************************************************************)
(* The provider adapters: what sendChat puts on the wire for a transcript  *)
(* and what it makes of the vendor's reply.  A field a request or a reply  *)
(* leaves out is "", -1 or << >>, as in the messages.                      *)
(***************************************************************************)
\* JSON.stringify on the values JsonParse yields
StringifyValue(value) ==
    CASE value = JsonParse("{\"file_path\":\"a.txt\"}") -> "{\"file_path\":\"a.txt\"}"
      [] value.kind = "null" -> "null"
      [] value.kind = "scalar" -> "42"
      [] OTHER -> "{}"

\* an exchange: the transcript the adapter was given, whether a request left for the
\* vendor, the request's messages, the vendor's reply and the ProviderResponse
Exchange(adapter, messages, request, data, response) ==
    [adapter |-> adapter, messages |-> messages, sent |-> TRUE, request |-> request,
     data |-> data, response |-> response]

\* the exchange of an adapter whose request building threw inside its try block: no
\* request leaves and no reply comes
Unsent(adapter, messages, response) ==
    [adapter |-> adapter, messages |-> messages, sent |-> FALSE, request |-> << >>,
     data |-> << >>, response |-> response]

\* messages.filter(msg => msg.role !== 'system') of ClaudeProvider and GeminiProvider
withoutSystem(messages) ==
    SelectSeqIdx(messages, {i \in 1..Len(messages) : messages[i].role # "system"}, 1)

\* the messages.map of sendChatCompletionsAPI, which GrokProvider.sendChat and
\* DeepSeekProvider.sendChat repeat word for word
chatCompletionsMessages(messages) ==
    [i \in 1..Len(messages) |->
        [role |-> messages[i].role,
         content |-> messages[i].content,
         name |-> messages[i].name,
         tool_call_id |-> IF messages[i].role = "tool" THEN messages[i].toolCallId ELSE "",
         tool_calls |-> messages[i].toolCalls]]

\* OpenAIProvider.sendChatCompletionsAPI when the HTTP call succeeds
sendChatCompletionsAPI(adapter, messages, data) ==
    Exchange(adapter, messages, chatCompletionsMessages(messages), data,
             parseChatCompletionsResponse(data))

\* an item of the input of sendResponsesAPI
InputItem(type, role, content, name, call_id, arguments) ==
    [type |-> type, role |-> role, content |-> content, name |-> name,
     call_id |-> call_id, arguments |-> arguments]

\* the messages.map of sendResponsesAPI; output of a function_call_output is content
responsesInput(messages) ==
    [i \in 1..Len(messages) |->
        IF messages[i].role = "tool" /\ messages[i].toolCallId # ""
        THEN InputItem("function_call_output", "", messages[i].content, "",
                       messages[i].toolCallId, "")
        ELSE IF messages[i].role = "assistant" /\ Len(messages[i].toolCalls) > 0
        THEN InputItem("function_call", "", "", messages[i].toolCalls[1].name,
                       messages[i].toolCalls[1].id, messages[i].toolCalls[1].arguments)
        ELSE InputItem("", messages[i].role, messages[i].content, messages[i].name, "", "")]

\* the last element of outputs that passes, or 0: what the for loop of
\* parseResponsesAPIResponse leaves in a variable it overwrites
lastOutput(outputs, passes(_)) ==
    IF \E i \in 1..Len(outputs) : passes(outputs[i])
    THEN CHOOSE i \in 1..Len(outputs) :
            /\ passes(outputs[i])
            /\ \A j \in (i + 1)..Len(outputs) : ~passes(outputs[j])
    ELSE 0

IsOutputText(output) == output.type = "message" /\ output.content_type = "output_text"
IsFunctionCall(output) == ~IsOutputText(output) /\ output.type = "function_call"

\* usage of parseResponsesAPIResponse
responsesUsage(usageRaw) ==
    [promptTokens |-> IF usageRaw.input_tokens >= 0 THEN usageRaw.input_tokens
                      ELSE usageRaw.prompt_tokens,
     completionTokens |-> IF usageRaw.output_tokens >= 0 THEN usageRaw.output_tokens
                          ELSE usageRaw.completion_tokens,
     totalTokens |->
        IF usageRaw.total_tokens >= 0 THEN usageRaw.total_tokens
        ELSE IF usageRaw.input_tokens >= 0 \/ usageRaw.output_tokens >= 0
             THEN Max(0, usageRaw.input_tokens) + Max(0, usageRaw.output_tokens)
             ELSE -1]

\* toolCalls of parseResponsesAPIResponse: every function_call output assigns a new
\* one-element array
responsesToolCalls(outputs) ==
    LET i == lastOutput(outputs, IsFunctionCall)
    IN  IF i = 0 THEN << >>
        ELSE << ToolCall(outputs[i].call_id, outputs[i].name, outputs[i].arguments) >>

\* OpenAIProvider.parseResponsesAPIResponse
parseResponsesAPIResponse(data) ==
    ProviderResponse(
        AssistantMessage(IF lastOutput(data.output, IsOutputText) = 0 THEN ""
                         ELSE data.output[lastOutput(data.output, IsOutputText)].text,
                         NoUsage, responsesToolCalls(data.output)),
        responsesUsage(data.usage), responsesToolCalls(data.output))

\* OpenAIProvider.sendResponsesAPI when the HTTP call succeeds
sendResponsesAPI(messages, data) ==
    Exchange("openai-responses", messages, responsesInput(messages), data,
             parseResponsesAPIResponse(data))

\* a content block of a Claude message
Block(type, text, id, name, input) ==
    [type |-> type, text |-> text, id |-> id, name |-> name, input |-> input]

\* ClaudeProvider.findToolCallId for the tool turn at index toolMessageIndex
findToolCallId(messages, toolMessageIndex) ==
    IF \E i \in 1..(toolMessageIndex - 1) :
          messages[i].role = "assistant" /\ Len(messages[i].toolCalls) > 0
    THEN LET i == CHOOSE k \in 1..(toolMessageIndex - 1) :
                     /\ messages[k].role = "assistant" /\ Len(messages[k].toolCalls) > 0
                     /\ \A j \in (k + 1)..(toolMessageIndex - 1) :
                           ~(messages[j].role = "assistant" /\ Len(messages[j].toolCalls) > 0)
         IN  IF messages[i].toolCalls[1].id # "" THEN messages[i].toolCalls[1].id
             ELSE "unknown"
    ELSE "unknown"

\* the id of a tool_use block: the call's id, or one made up from the clock and a
\* random number
toolUseId(toolCall, made) == IF toolCall.id # "" THEN toolCall.id ELSE made

\* ClaudeProvider.formatMessages: a tool_result block holds the id in id and the
\* result in text, a message with plain content has no blocks
formatMessages(messages, made) ==
    [i \in 1..Len(messages) |->
        IF messages[i].role = "tool"
        THEN [role |-> "user", content |-> "",
              blocks |-> << Block("tool_result", messages[i].content,
                                  findToolCallId(messages, i), "", EmptyObject) >>]
        ELSE IF messages[i].role = "assistant" /\ Len(messages[i].toolCalls) > 0
        THEN [role |-> "assistant", content |-> "",
              blocks |-> << Block("text", messages[i].content, "", "", EmptyObject) >>
                 \o [k \in 1..Len(messages[i].toolCalls) |->
                       Block("tool_use", "", toolUseId(messages[i].toolCalls[k], made),
                             IF messages[i].toolCalls[k].name # ""
                             THEN messages[i].toolCalls[k].name ELSE "unknown",
                             JsonParse(IF messages[i].toolCalls[k].arguments # ""
                                       THEN messages[i].toolCalls[k].arguments
                                       ELSE "{}"))]]
        ELSE [role |-> messages[i].role, content |-> messages[i].content,
              blocks |-> << >>]]

\* JSON.parse throws for the arguments of a tool call of the transcript
Unparsable(messages) ==
    \E i \in 1..Len(messages) : \E k \in 1..Len(messages[i].toolCalls) :
       /\ messages[i].toolCalls[k].arguments # ""
       /\ JsonParse(messages[i].toolCalls[k].arguments).kind = "error"

\* usage of ClaudeProvider.parseResponse; the vendor reports both counts or no usage
claudeUsage(usageRaw) ==
    IF usageRaw.input_tokens < 0 /\ usageRaw.output_tokens < 0 THEN NoUsage
    ELSE [promptTokens |-> usageRaw.input_tokens,
          completionTokens |-> usageRaw.output_tokens,
          totalTokens |-> usageRaw.input_tokens + usageRaw.output_tokens]

\* toolCalls of ClaudeProvider.parseResponse
claudeToolCalls(content) ==
    LET uses == SelectSeqIdx(content, {i \in 1..Len(content) : content[i].type = "tool_use"}, 1)
    IN  [k \in 1..Len(uses) |->
            ToolCall(uses[k].id, uses[k].name, StringifyValue(uses[k].input))]

\* ClaudeProvider.parseResponse
claudeParseResponse(data) ==
    ProviderResponse(
        AssistantMessage(
            Join(SelectSeqIdx([i \in 1..Len(data.content) |-> data.content[i].text],
                              {i \in 1..Len(data.content) : data.content[i].type = "text"}, 1),
                 ""),
            NoUsage, claudeToolCalls(data.content)),
        claudeUsage(data.usage), claudeToolCalls(data.content))

\* ClaudeProvider.sendChat when the HTTP call succeeds: formatMessages runs inside the
\* try block, so a JSON.parse that throws ends in the catch and nothing is sent
claudeSendChat(messages, data, made) ==
    IF Unparsable(withoutSystem(messages))
    THEN Unsent("claude", messages,
                ProviderResponse(AssistantMessage("# Claude error: Unexpected token",
                                                  NoUsage, << >>), NoUsage, << >>))
    ELSE Exchange("claude", messages, formatMessages(withoutSystem(messages), made), data,
                  claudeParseResponse(data))

\* a GeminiPart: text, functionCall (name, args) or functionResponse (name, content,
\* held in text)
Part(kind, text, name, args) == [kind |-> kind, text |-> text, name |-> name, args |-> args]

\* the calls of a message whose arguments JSON.parse accepts
parsableCalls(calls) ==
    SelectSeqIdx(calls, {j \in 1..Len(calls) : JsonParse(calls[j].arguments).kind # "error"}, 1)

functionCallParts(calls) ==
    [k \in 1..Len(calls) |->
        Part("functionCall", "", calls[k].name, JsonParse(calls[k].arguments))]

\* the parts mapMessagesToGemini makes of one message: a call whose arguments do not
\* parse is logged and left out
geminiParts(msg) ==
    (IF msg.content = "" THEN << >>
     ELSE IF msg.role = "tool"
     THEN << Part("functionResponse", msg.content,
                  IF msg.name # "" THEN msg.name ELSE "unknown_function", EmptyObject) >>
     ELSE << Part("text", msg.content, "", EmptyObject) >>)
    \o functionCallParts(parsableCalls(msg.toolCalls))

\* the loop of mapMessagesToGemini from message i on: a message of the role of the last
\* content adds its parts to it
RECURSIVE mapMessagesFrom(_, _, _)
mapMessagesFrom(messages, i, geminiContents) ==
    IF i > Len(messages) THEN geminiContents
    ELSE mapMessagesFrom(messages, i + 1,
            IF /\ Len(geminiContents) > 0
               /\ geminiContents[Len(geminiContents)].role
                     = (IF messages[i].role = "assistant" THEN "model" ELSE "user")
            THEN [geminiContents EXCEPT ![Len(geminiContents)].parts =
                                           @ \o geminiParts(messages[i])]
            ELSE Append(geminiContents,
                        [role |-> IF messages[i].role = "assistant" THEN "model" ELSE "user",
                         parts |-> geminiParts(messages[i])]))

\* GeminiProvider.mapMessagesToGemini
mapMessagesToGemini(messages) == mapMessagesFrom(messages, 1, << >>)

\* usage of GeminiProvider.parseResponse
geminiUsage(usageRaw) ==
    [promptTokens |-> usageRaw.promptTokenCount,
     completionTokens |-> usageRaw.candidatesTokenCount,
     totalTokens |-> usageRaw.totalTokenCount]

\* toolCalls of GeminiProvider.parseResponse; now is Date.now() and the index counts the
\* parts from 0
geminiToolCalls(parts, now) ==
    LET calls == {i \in 1..Len(parts) : parts[i].kind = "functionCall"}
        ids == [i \in 1..Len(parts) |-> "gemini_call_" \o now \o "_" \o ToString(i - 1)]
    IN  [k \in 1..Cardinality(calls) |->
            ToolCall(SelectSeqIdx(ids, calls, 1)[k], SelectSeqIdx(parts, calls, 1)[k].name,
                     StringifyValue(SelectSeqIdx(parts, calls, 1)[k].args))]

\* GeminiProvider.parseResponse: a reply without a candidate gives an error message and
\* no usage
geminiParseResponse(data, now) ==
    IF ~data.candidate
    THEN ProviderResponse(
            AssistantMessage("# Gemini error: Respons tidak valid atau kosong.",
                             NoUsage, << >>), NoUsage, << >>)
    ELSE ProviderResponse(
            AssistantMessage(
                Join(SelectSeqIdx([i \in 1..Len(data.parts) |-> data.parts[i].text],
                                  {i \in 1..Len(data.parts) : data.parts[i].kind = "text"}, 1),
                     ""),
                NoUsage, geminiToolCalls(data.parts, now)),
            geminiUsage(data.usageMetadata), geminiToolCalls(data.parts, now))

\* GeminiProvider.sendChat when the HTTP call succeeds
geminiSendChat(messages, data, now) ==
    Exchange("gemini", messages, mapMessagesToGemini(withoutSystem(messages)), data,
             geminiParseResponse(data, now))

(***************************************************************************)
(* The adapters at work: a transcript goes out, a reply comes back.        *)
(***************************************************************************)
ListCall == ToolCall("c2", "list_directory", "{}")

\* the transcripts handed to sendChat: no tool turn, one call and its result, a turn of
\* two calls and their results, a call the vendor gave no arguments, and a call whose
\* arguments do not parse
WireTranscripts ==
    { << SystemMessage(systemPrompt), UserMessage("hi") >>,
      << SystemMessage(systemPrompt), UserMessage("hi"),
         AssistantMessage("", NoUsage, << ReadCall >>),
         ToolMessage("Tool result for read_file:\nabc", "read_file", "c1") >>,
      << SystemMessage(systemPrompt), UserMessage("hi"),
         AssistantMessage("", NoUsage, << ReadCall, ListCall >>),
         ToolMessage("Tool result for read_file:\nabc", "read_file", "c1"),
         ToolMessage("Tool result for list_directory:\na.txt", "list_directory", "c2") >>,
      << SystemMessage(systemPrompt), UserMessage("hi"),
         AssistantMessage("Listing.", NoUsage, << ToolCall("c1", "list_directory", "") >>),
         ToolMessage("Tool result for list_directory:\na.txt", "list_directory", "c1") >>,
      << SystemMessage(systemPrompt), UserMessage("hi"),
         AssistantMessage("", NoUsage, << ToolCall("c1", "list_directory", "{bad") >>),
         ToolMessage("Tool result for list_directory:\na.txt", "list_directory", "c1") >> }

\* the usage objects of the chat-completions vendors: none, the two counts without a
\* total, the total alone, and all three
ChatUsages ==
    { NoRawUsage,
      [prompt_tokens |-> 10, completion_tokens |-> 5, total_tokens |-> -1],
      [prompt_tokens |-> -1, completion_tokens |-> -1, total_tokens |-> 15],
      [prompt_tokens |-> 10, completion_tokens |-> 5, total_tokens |-> 15] }

ChatReplies ==
    { [content |-> "ok", tool_calls |-> calls, usage |-> usage] :
         calls \in { << >>, << ReadCall >>, << ReadCall, ListCall >> }, usage \in ChatUsages }

\* an element of the output of a /v1/responses reply
Output(type, content_type, text, call) ==
    [type |-> type, content_type |-> content_type, text |-> text, call_id |-> call.id,
     name |-> call.name, arguments |-> call.arguments]

\* the usage objects of /v1/responses: none, the counts under the names of this API and
\* under the names of chat completions, and all three
ResponsesUsages ==
    { [input_tokens |-> i, output_tokens |-> o, prompt_tokens |-> p,
       completion_tokens |-> c, total_tokens |-> t] :
         << i, o, p, c, t >> \in { << -1, -1, -1, -1, -1 >>, << 10, 5, -1, -1, -1 >>,
                                   << -1, -1, 10, 5, -1 >>, << 10, 5, -1, -1, 15 >> } }

ResponsesReplies ==
    { [output |-> output, usage |-> usage] :
         output \in { << Output("message", "output_text", "ok", ToolCall("", "", "")) >>,
                      << Output("function_call", "", "", ReadCall) >>,
                      << Output("function_call", "", "", ReadCall),
                         Output("function_call", "", "", ListCall) >>,
                      << Output("message", "output_text", "Reading.", ToolCall("", "", "")),
                         Output("function_call", "", "", ReadCall) >> },
         usage \in ResponsesUsages }

ClaudeReplies ==
    { [content |-> content, usage |-> usage] :
         content \in { << Block("text", "ok", "", "", EmptyObject) >>,
                       << Block("text", "Reading.", "", "", EmptyObject),
                          Block("tool_use", "", "c1", "read_file", JsonParse(ReadCall.arguments)) >>,
                       << Block("tool_use", "", "c1", "read_file", JsonParse(ReadCall.arguments)),
                          Block("tool_use", "", "c2", "list_directory", EmptyObject) >> },
         usage \in { [input_tokens |-> -1, output_tokens |-> -1],
                     [input_tokens |-> 10, output_tokens |-> 5] } }

GeminiReplies ==
    { [candidate |-> parts # << >>, parts |-> parts, usageMetadata |-> usage] :
         parts \in { << >>,
                     << Part("text", "ok", "", EmptyObject) >>,
                     << Part("functionCall", "", "read_file", JsonParse(ReadCall.arguments)) >>,
                     << Part("functionCall", "", "read_file", JsonParse(ReadCall.arguments)),
                        Part("functionCall", "", "list_directory", EmptyObject) >> },
         usage \in { [promptTokenCount |-> -1, candidatesTokenCount |-> -1,
                      totalTokenCount |-> -1],
                     [promptTokenCount |-> 10, candidatesTokenCount |-> 5,
                      totalTokenCount |-> -1],
                     [promptTokenCount |-> 10, candidatesTokenCount |-> 5,
                      totalTokenCount |-> 15] } }

\* what Date.now() reads, and an id made up for a tool_use block
Clock == {"1700000000000"}
MadeIds == {"tool_1700000000000_k3j4h5g6f"}

\* OpenAIProvider.sendChat with a model of the chat-completions API
OpenAISendChatCompletions ==
    /\ \E messages \in WireTranscripts, data \in ChatReplies :
          wire' = sendChatCompletionsAPI("openai", messages, data)
    /\ UNCHANGED << convVars, loopVars, sessionVars, disk, aliases, cycleSession, created >>

\* OpenAIProvider.sendChat with a model isResponsesAPI names
OpenAISendResponses ==
    /\ \E messages \in WireTranscripts, data \in ResponsesReplies :
          wire' = sendResponsesAPI(messages, data)
    /\ UNCHANGED << convVars, loopVars, sessionVars, disk, aliases, cycleSession, created >>

GrokSendChat ==
    /\ \E messages \in WireTranscripts, data \in ChatReplies :
          wire' = sendChatCompletionsAPI("grok", messages, data)
    /\ UNCHANGED << convVars, loopVars, sessionVars, disk, aliases, cycleSession, created >>

DeepSeekSendChat ==
    /\ \E messages \in WireTranscripts, data \in ChatReplies :
          wire' = sendChatCompletionsAPI("deepseek", messages, data)
    /\ UNCHANGED << convVars, loopVars, sessionVars, disk, aliases, cycleSession, created >>

ClaudeSendChat ==
    /\ \E messages \in WireTranscripts, data \in ClaudeReplies, made \in MadeIds :
          wire' = claudeSendChat(messages, data, made)
    /\ UNCHANGED << convVars, loopVars, sessionVars, disk, aliases, cycleSession, created >>

GeminiSendChat ==
    /\ \E messages \in WireTranscripts, data \in GeminiReplies, now \in Clock :
          wire' = geminiSendChat(messages, data, now)
    /\ UNCHANGED << convVars, loopVars, sessionVars, disk, aliases, cycleSession, created >>

NextAdapters ==
    \/ OpenAISendChatCompletions
    \/ OpenAISendResponses
    \/ GrokSendChat
    \/ DeepSeekSendChat
    \/ ClaudeSendChat
    \/ GeminiSendChat

SpecAdapters == Init /\ [][NextAdapters]_vars

(***************************************************************************)
(* The same agent loop with the workspace folders changing.                *)
(***************************************************************************)
\* provider calls the model follows with the workspace folders changing
MaxWorkspaceCalls == 2

\* GeneralMCPHandler.updateSystemPrompt: resetConversation, that is
\* ConversationHandler.reset, that is initialize
updateSystemPrompt(prompt, opts, cm) == initialize(prompt, opts, cm)

\* workspaceWatcher, at any point of a cycle: mcp.updateTools replaces the registry and
\* the definitions by what buildTooling builds again (registry here, which no folder
\* changes), mcp.updateSystemPrompt follows with the prompt built for the first folder,
\* which a folder added behind it leaves as it was, and persistActiveSession stores the
\* result
WorkspaceFoldersChanged ==
    /\ \E cs \in {updateSystemPrompt(systemPrompt, options, Summary)} :
          /\ SetConv(cs)
          /\ sessions' = persistActiveSession(sessions, activeSessionId, cs.history)
    /\ UNCHANGED << wire, cycleSession, created, options, disk, aliases, loopVars, activeSessionId >>

WorkspacePrompt == PromptWithin(MaxWorkspaceCalls)

WorkspaceResponds == RespondsWithin(MaxWorkspaceCalls)

NextWorkspace ==
    \/ WorkspacePrompt
    \/ WorkspaceResponds
    \/ TurnToolReturns
    \/ WorkspaceFoldersChanged

SpecWorkspace == InitTurns /\ [][NextWorkspace]_vars

(***************************************************************************)
(* The same agent loop with the session handlers of the panel, which run   *)
(* whenever their message arrives: between two cycles or while a cycle     *)
(* awaits the provider or a tool.                                          *)
(***************************************************************************)
\* provider calls the model follows with the session handlers in use
MaxInFlightCalls == 2

\* sessions createSession makes
MaxCreated == 1

\* mcp.loadConversation(session.messages) for the active session of the manager
loadActive(m, opts, cm) ==
    load(storedMessages(m.sessions, m.activeSessionId), systemPrompt, opts, cm)

\* the manager and the conversation a session handler leaves
SetManaged(m) ==
    /\ sessions' = m.sessions
    /\ activeSessionId' = m.activeSessionId
    /\ SetConv(loadActive(m, options, Summary))

\* handleSwitchSession
HandleSwitchSession ==
    /\ \E i \in 1..Len(sessions) :
          /\ sessions[i].id # activeSessionId
          /\ SetManaged(setActiveSession(
                Manager(persistActiveSession(sessions, activeSessionId, history),
                        activeSessionId),
                sessions[i].id))
    /\ UNCHANGED << wire, cycleSession, created, options, disk, aliases, loopVars >>

\* handleCreateSession
HandleCreateSession ==
    /\ created < MaxCreated
    /\ created' = created + 1
    /\ SetManaged(createSession(Manager(sessions, activeSessionId),
                                "session-" \o ToString(created + 1), "", systemPrompt))
    /\ UNCHANGED << wire, cycleSession, options, disk, aliases, loopVars >>

\* handleDeleteSession
HandleDeleteSession ==
    /\ \E i \in 1..Len(sessions) :
          SetManaged(deleteSession(
             Manager(IF sessions[i].id = activeSessionId
                     THEN persistActiveSession(sessions, activeSessionId, history)
                     ELSE sessions,
                     activeSessionId),
             sessions[i].id))
    /\ UNCHANGED << wire, cycleSession, created, options, disk, aliases, loopVars >>

InFlightPrompt == PromptWithin(MaxInFlightCalls)

InFlightResponds == RespondsWithin(MaxInFlightCalls)

NextInFlight ==
    \/ InFlightPrompt
    \/ InFlightResponds
    \/ TurnToolReturns
    \/ HandleSwitchSession
    \/ HandleCreateSession
    \/ HandleDeleteSession

\* a first activation: the store holds the one session ensureBootstrapped made
SpecInFlight == Init /\ [][NextInFlight]_vars

(***************************************************************************)
(* The interface of SessionManager, called in any order after              *)
(* ensureBootstrapped.                                                     *)
(***************************************************************************)
\* what the constructor reads from the workspace storage: nothing, an active id without
\* sessions, sessions without an active id, with the id of one of them, and with an id
\* that names none of them
Storages ==
    { Manager(<< >>, ""), Manager(<< >>, "gone"),
      Manager(StoredSessions, ""), Manager(StoredSessions, "s3"),
      Manager(StoredSessions, "gone") }

\* the state after activation with the storage as the constructor found it
InitManager ==
    /\ options \in TurnOptions
    /\ \E storage \in Storages :
          \E m \in {ensureBootstrapped(storage, "session-1", systemPrompt)} :
             /\ sessions = m.sessions
             /\ activeSessionId = m.activeSessionId
             /\ created = IF Len(storage.sessions) = 0 THEN 1 ELSE 0
             /\ \E cs \in {loadActive(m, options, NoSummary)} :
                   /\ history = cs.history
                   /\ summaryLines = cs.lines
                   /\ summaryHashes = cs.hashes
    /\ pc = "idle"
    /\ toolCalls = << >>
    /\ callIndex = 0
    /\ sent = << >>
    /\ hostLog = << >>
    /\ execLog = << >>
    /\ batchLog = << >>
    /\ lastResponse = NoResponse
    /\ continuations = 0
    /\ providerCalls = 0
    /\ stopRequested = FALSE
    /\ stopPoint = NoStop
    /\ commandPc = "idle"
    /\ disk = InitialDisk
    /\ aliases = {}
    /\ wire = NoWire
    /\ cycleSession = ""

\* the ids the calls name: those of the sessions of the list and one that names none
KnownIds == {sessions[i].id : i \in 1..Len(sessions)}
CalledIds == KnownIds \cup {"gone"}

SetManager(m) ==
    /\ sessions' = m.sessions
    /\ activeSessionId' = m.activeSessionId

ManagerCreateSession ==
    /\ created <= MaxCreated
    /\ created' = created + 1
    /\ \E title \in {"", "Plan"} :
          SetManager(createSession(Manager(sessions, activeSessionId),
                                   "session-" \o ToString(created + 1), title, systemPrompt))
    /\ UNCHANGED << wire, cycleSession, convVars, disk, aliases, loopVars >>

ManagerDeleteSession ==
    /\ \E sessionId \in CalledIds :
          SetManager(deleteSession(Manager(sessions, activeSessionId), sessionId))
    /\ UNCHANGED << wire, cycleSession, created, convVars, disk, aliases, loopVars >>

ManagerSetActiveSession ==
    /\ \E sessionId \in CalledIds :
          SetManager(setActiveSession(Manager(sessions, activeSessionId), sessionId))
    /\ UNCHANGED << wire, cycleSession, created, convVars, disk, aliases, loopVars >>

ManagerUpdateSessionMessages ==
    /\ \E sessionId \in CalledIds :
          sessions' = updateSessionMessages(sessions, sessionId,
                         << SystemMessage(systemPrompt), UserMessage("hi") >>)
    /\ UNCHANGED << wire, cycleSession, created, convVars, disk, aliases, loopVars,
                    activeSessionId >>

ManagerRenameSession ==
    /\ \E sessionId \in CalledIds, title \in {"Plan ", "  "} :
          sessions' = renameSession(sessions, sessionId, title)
    /\ UNCHANGED << wire, cycleSession, created, convVars, disk, aliases, loopVars,
                    activeSessionId >>

NextManager ==
    \/ ManagerCreateSession
    \/ ManagerDeleteSession
    \/ ManagerSetActiveSession
    \/ ManagerUpdateSessionMessages
    \/ ManagerRenameSession

SpecManager == InitManager /\ [][NextManager]_vars

(***************************************************************************)
(* Properties of the transcript and of the agent loop.                     *)
(***************************************************************************)
\* the positions of the current batch that have a tool turn in the batch log
Answered == {batchLog[k].pos : k \in 1..Len(batchLog)}

\* the current batch is over: the for loop of processOutcome went past its last call
BatchOver == Len(toolCalls) > 0 /\ callIndex > Len(toolCalls)

\* C1: whatever sequence of initialize, addUserMessage, addAssistantMessage,
\* addToolResult, load and optimize is called on an initialized ConversationHandler, its
\* transcript is never empty and its first turn has role system.
C1_SystemTurnFirst == Len(history) > 0 /\ history[1].role = "system"

\* a transcript that optimize() has rewritten around a summary message
C1_Summarized ==
    /\ Len(summaryLines) > 0
    /\ Len(history) >= 3
    /\ history[2].role = "assistant"
    /\ StartsWith(history[2].content, summaryPrefix)

\* C2: the loop stops after the configured maximum number of continuation calls: no
\* cycle issues more than maxIterations continuation calls.
C2_AtMostMaxIterations == continuations <= maxIterations

\* C3: within one batch the executors run and the tool turns are appended in the order
\* the calls were issued, and each tool turn carries the id of its call as toolCallId;
\* while the batch runs these turns are the end of the transcript.
C3_IssueOrder ==
    /\ \A k \in 1..Len(batchLog) :
          /\ batchLog[k].role = "tool"
          /\ batchLog[k].toolCallId = toolCalls[batchLog[k].pos].id
          /\ batchLog[k].name = normalizedAction(toolCalls[batchLog[k].pos].name)
    /\ \A k \in 1..Len(batchLog) : \A l \in 1..Len(batchLog) :
          k < l => batchLog[k].pos < batchLog[l].pos
    /\ \A k \in 1..Len(execLog) : \A l \in 1..Len(execLog) :
          k < l => execLog[k].pos < execLog[l].pos
    /\ \A k \in 1..Len(execLog) : execLog[k].pos \in Answered
    /\ pc = "tools" =>
          /\ Len(history) >= Len(batchLog)
          /\ \A k \in 1..Len(batchLog) :
                /\ history[Len(history) - Len(batchLog) + k].role = "tool"
                /\ history[Len(history) - Len(batchLog) + k].toolCallId
                      = batchLog[k].toolCallId

\* a batch of two calls whose executors both ran, with the continuation call issued
C3_TwoCallsDone == pc = "continue" /\ Len(batchLog) = 2 /\ Len(execLog) = 2

\* C4: a continuation call is issued only when every call of the batch has its tool
\* turn, and a response without tool calls ends the loop with no further provider call.
C4_ResultsBeforeContinuation ==
    /\ pc = "continue" => \A i \in 1..Len(toolCalls) : i \in Answered
    /\ lastResponse.kind = "final" => pc = "idle"

\* C5: a failed tool call does not abort the loop: its tool turn carries the failure
\* text, the next call of the batch (the next one the loop does not skip) is run, and
\* when the batch is over the continuation call is issued.
C5_FailureDoesNotAbort ==
    /\ \A k \in 1..Len(batchLog) :
          ~batchLog[k].success =>
             /\ batchLog[k].role = "tool"
             /\ \/ Includes(batchLog[k].content, "Error: ")
                \/ Includes(batchLog[k].content, ": FAILED - ")
             /\ IF nextCall(toolCalls, batchLog[k].pos + 1) <= Len(toolCalls)
                THEN IF k < Len(batchLog)
                     THEN batchLog[k + 1].pos = nextCall(toolCalls, batchLog[k].pos + 1)
                     ELSE pc = "tools"
                          /\ callIndex = nextCall(toolCalls, batchLog[k].pos + 1)
                ELSE k = Len(batchLog) /\ BatchOver
    /\ BatchOver =>
          /\ pc \in {"continue", "idle"}
          /\ continuations >= 1
          /\ pc = "idle" => lastResponse.kind # "tools"

\* a batch whose first call failed in its executor and whose second call was run, with
\* the continuation call issued
C5_FailedThenNext ==
    /\ pc = "continue"
    /\ Len(batchLog) = 2
    /\ ~batchLog[1].success
    /\ batchLog[1].invoked
    /\ batchLog[2].invoked

\* C6: every call of a batch whose requested name is in no registry entry and matches
\* no alias has, when the batch is over, a tool turn that carries an error.
C6_UnknownNameAnswered ==
    BatchOver =>
       \A i \in 1..Len(toolCalls) :
          (toolCalls[i].name \notin registry /\ fileToolAlias(toolCalls[i].name) = "") =>
             \E k \in 1..Len(batchLog) : batchLog[k].pos = i /\ ~batchLog[k].success

\* the argument payload is malformed: blank, not parseable, or no argument object
Malformed(arguments) == Trim(arguments) = "" \/ JsonParse(arguments).kind # "object"

\* C7: a call with a malformed argument payload to a tool of the registry has its
\* executor invoked, with the parameters the empty parameter set gives.
C7_MalformedRunsEmpty ==
    \A k \in 1..Len(batchLog) :
       (/\ Malformed(toolCalls[batchLog[k].pos].arguments)
        /\ batchLog[k].name \in registry) =>
          \E e \in 1..Len(execLog) :
             /\ execLog[e].pos = batchLog[k].pos
             /\ execLog[e].params = ensureToolParameters(batchLog[k].name, EmptyObject).params

\* C8: when Stop is pressed in a batch of at least two calls after the first tool was
\* executed, no further executor runs and no continuation call is issued.
C8_StopEndsBatch ==
    (stopPoint.phase = "tools" /\ stopPoint.size >= 2 /\ stopPoint.executed >= 1) =>
       /\ continuations = stopPoint.batch
       /\ Len(execLog) = stopPoint.executed

\* C9: a cancelled provider call appends no error-prefixed assistant turn, neither to
\* the history nor to what the hosts show.
C9_CancelLeavesNoFailure ==
    lastResponse.kind = "cancel" =>
       /\ lastResponse.appended = 0
       /\ \A k \in 1..Len(hostLog) : ~StartsWith(hostLog[k].content, "# ")

\* C10: a transport failure other than a cancellation is not thrown: the adapter's
\* synthetic turn, an assistant turn with the error prefix and no tool calls, is the one
\* turn appended, and the cycle is over.
C10_FailureIsOneErrorTurn ==
    lastResponse.kind = "failure" =>
       /\ ~lastResponse.threw
       /\ lastResponse.appended = 1
       /\ pc = "idle"
       /\ Len(history) > 0
       /\ history[Len(history)].role = "assistant"
       /\ StartsWith(history[Len(history)].content, "# ")
       /\ Len(history[Len(history)].toolCalls) = 0

\* a continuation call that ended in a transport failure
C10_ContinuationFailed ==
    lastResponse.kind = "failure" /\ continuations = 1 /\ Len(batchLog) > 0

\* C11: neither GeneralMCPHandler.handlePrompt nor GeneralMCPHandler.continueAfterTool
\* throws to its caller: whatever way a provider call ends (no API key, provider error,
\* cancellation), the method returns an outcome.
C11_NeverThrowsToCaller == ~lastResponse.escaped

\* C12: a prompt cycle that is over has shown the hosts at least one turn of that cycle,
\* and the last turn it showed is an assistant turn.
C12_CycleLeavesArtifact ==
    (pc = "idle" /\ lastResponse.kind # "none") =>
       /\ Len(hostLog) >= 1
       /\ hostLog[Len(hostLog)].role = "assistant"

\* a cycle that ended because the provider factory found no API key on the first call
C12_ErrorOnlyCycle ==
    pc = "idle" /\ lastResponse.kind = "nokey" /\ continuations = 0 /\ Len(hostLog) = 1

\* the turn at position j of transcript h is a tool turn whose toolCallId no assistant
\* turn before it issued
Orphan(h, j) ==
    /\ h[j].role = "tool"
    /\ ~\E i \in 1..(j - 1) :
           /\ h[i].role = "assistant"
           /\ \E k \in 1..Len(h[i].toolCalls) : h[i].toolCalls[k].id = h[j].toolCallId

\* C13: in the transcript of the ConversationHandler, whatever the agent loop appended
\* and whatever the compaction passes removed or summarized, every tool turn comes
\* after an assistant turn that issued a tool call with the tool turn's toolCallId.
C13_ToolTurnsHaveIssuer == \A j \in 1..Len(history) : ~Orphan(history, j)

\* the position of the assistant turn a tool turn at position j of h answers: the last
\* assistant turn before j that issued a call with its toolCallId, 0 when there is none
IssuerOf(h, j) ==
    Max(0, CHOOSE i \in 0..(j - 1) :
              \A l \in (i + 1)..(j - 1) :
                 ~(/\ h[l].role = "assistant"
                   /\ \E k \in 1..Len(h[l].toolCalls) : h[l].toolCalls[k].id = h[j].toolCallId)
              /\ (i > 0 => /\ h[i].role = "assistant"
                           /\ \E k \in 1..Len(h[i].toolCalls) :
                                 h[i].toolCalls[k].id = h[j].toolCallId))

\* a cut of h after its first cut turns (head 1..cut, tail from cut + 1) leaves a tool
\* turn in the tail whose assistant tool-call turn is in the head
Separates(h, cut) ==
    \E j \in (cut + 1)..Len(h) : h[j].role = "tool" /\ IssuerOf(h, j) \in 1..cut

\* the cut the retention alone gives: startIndex before it is moved
naiveCut(h, opts) == Max(0, Len(h) - Max(0, opts.summaryRetention))

\* C14: when the cut that the retention alone gives falls between an assistant tool-call
\* turn and one of its tool turns, the cut applySummaries chooses does not: no assistant
\* tool-call turn goes to the summarized head while a tool turn that answers it stays in
\* the tail.
C14_CutKeepsPairs ==
    Separates(history, naiveCut(history, options)) =>
       ~Separates(history,
                  cutPoint(history, shouldForceSummaryByTokens(history, options), options))

\* C15: right after a compaction pass (RequestHandler has called optimize() and no turn
\* was added since), a second call of ConversationHandler.optimize leaves the set of
\* summary hashes and the summary lines as the first call left them.
C15_SecondPassAddsNothing ==
    pc \in {"handle", "continue"} =>
       LET second == convOptimize(history, summaryLines, summaryHashes, options)
       IN  second.hashes = summaryHashes /\ second.lines = summaryLines

\* the positions of the assistant turns of h that request a tool with one call of the
\* given name and arguments and are followed by the tool turn of that call
RequestPairs(h, name, arguments) ==
    {i \in 1..(Len(h) - 1) :
        /\ h[i].role = "assistant"
        /\ Len(h[i].toolCalls) = 1
        /\ h[i].toolCalls[1].name = name
        /\ h[i].toolCalls[1].arguments = arguments
        /\ h[i + 1].role = "tool"
        /\ h[i + 1].toolCallId = h[i].toolCalls[1].id}

\* the n last positions of a set of positions
MostRecent(P, n) == {i \in P : Cardinality({j \in P : j > i}) < n}

\* the turns of h outside the pairs at the positions P differ from each other
OtherwiseUnique(h, P) ==
    \A a \in 1..Len(h) : \A b \in 1..Len(h) :
       (a < b /\ {a, b} \cap (P \cup {p + 1 : p \in P}) = {}) => h[a] # h[b]

\* what optimize() removes of the pairs at the positions P is all of them but the n last
CollapsedTo(h, P, n) ==
    indicesToRemove(h, n) \cap (P \cup {p + 1 : p \in P})
       = (P \ MostRecent(P, n)) \cup {p + 1 : p \in P \ MostRecent(P, n)}

\* C16: when the transcript holds more than maxInstances pairs of an assistant turn and
\* its tool turn that request the same optimizable tool with the same arguments, among
\* turns that are otherwise unique, the collapsing step of optimize() removes all of
\* these pairs but the maxInstances most recent ones.
C16_CollapsesToMostRecent ==
    (options.enabled /\ Len(history) > 2) =>
       \A i \in 1..Len(history) :
          (/\ history[i].role = "assistant"
           /\ Len(history[i].toolCalls) = 1
           /\ history[i].toolCalls[1].name \in optimizedActions) =>
             \A P \in {RequestPairs(history, history[i].toolCalls[1].name,
                                     history[i].toolCalls[1].arguments)} :
                (Cardinality(P) >= options.maxInstances + 1 /\ OtherwiseUnique(history, P))
                   => CollapsedTo(history, P, options.maxInstances)

\* the lines of the summary as a summary message carries them and as
\* hydrateSummaryFromMessages reads them back
RenderedLines(lines) == SplitLines(Join(lines, "\n"))

\* the bullet that starts at line i of the rendered lines L: the line with the bullet
\* mark and the lines of its tool calls up to the next bullet mark
BulletAt(L, i) ==
    SubSeq(L, i, Least({j \in (i + 1)..(Len(L) + 1) :
                           j = Len(L) + 1 \/ StartsWith(L[j], "@ ")}) - 1)

NoBulletTwice(L) ==
    \A i \in 1..Len(L) : \A j \in 1..Len(L) :
       (i < j /\ StartsWith(L[i], "@ ") /\ StartsWith(L[j], "@ ")) =>
          BulletAt(L, i) # BulletAt(L, j)

\* C17: the summary never lists a bullet twice, whether the passes that wrote it ran in
\* one ContextManager or the transcript was stored and loaded into a fresh one between
\* them; this includes the bullets of assistant turns that list their tool calls.
C17_NoBulletTwice == NoBulletTwice(RenderedLines(summaryLines))

C19_LengthTriggerSkipsSystem ==
    (/\ options.enabled
     /\ options.summaryEnabled
     /\ ~shouldForceSummaryByTokens(history, options)) =>
       \A r \in {optimize(history, summaryLines, summaryHashes, options)} :
          /\ r.summaryUpdated => (Len(history) - r.removed) - 1 > options.summaryThreshold
          /\ (Len(history) - r.removed) - 1 > options.summaryThreshold => Len(r.lines) > 0

\* C20: a load of an empty transcript or of one that does not start with a system turn
\* leaves the fresh transcript of the fallback system prompt alone, and a ContextManager
\* without summary lines: so the ConversationHandler stands while the store still holds
\* such a transcript for the session that was made the active one.
C20_LoadFallsBack ==
    (pc = "idle" /\ Discarded(storedMessages(sessions, activeSessionId))) =>
       /\ history = << SystemMessage(systemPrompt) >>
       /\ summaryLines = << >>
       /\ summaryHashes = {}

\* the session whose stored transcript starts with a user turn was made the active one
\* after a cycle had run in another session
C20_ForeignTranscriptLoaded ==
    /\ activeSessionId = "s3"
    /\ pc = "idle"
    /\ storedMessages(sessions, "s3")[1].role = "user"
    /\ Len(storedMessages(sessions, "s1")) > 1
    /\ history = << SystemMessage(systemPrompt) >>

\* the transcript the load of this step reads: the stored messages of the session
\* that is active after the step
LoadedTranscript == storedMessages(sessions, activeSessionId)

\* the summaryLines and summaryHashes a summary message embedded in the transcript
\* gives a ContextManager that holds none, nothing when the transcript has none
EmbeddedSummary(loaded) == hydrateSummaryFromMessages(loaded, << >>, {})

\* C21 as stated: every load (a reload of the active session, a switch to another
\* session) leaves the compactor with exactly the summaryLines and fingerprints of the
\* summary message embedded in the loaded transcript, none when it embeds no summary message
C21_LoadLeavesEmbeddedSummaryOnly ==
    [][(TurnReload \/ SessionSwitch) =>
          /\ summaryLines' = EmbeddedSummary(LoadedTranscript').lines
          /\ summaryHashes' = EmbeddedSummary(LoadedTranscript').hashes]_vars

\* C21: whatever summaryLines and fingerprints the compactor held before, every load
\* leaves it with those a newly constructed compactor has after the same load: the lines
\* of the summary message embedded in the loaded transcript come first, followed only by
\* the bullets the compaction pass of the load itself adds; no line of the session that
\* was active before survives
C21_LoadForgetsPreviousSession ==
    [][(TurnReload \/ SessionSwitch) =>
          \E fresh \in {load(LoadedTranscript', systemPrompt, options, NoSummary)} :
             /\ summaryLines' = fresh.lines
             /\ summaryHashes' = fresh.hashes
             /\ history' = fresh.history
             /\ Len(EmbeddedSummary(LoadedTranscript').lines) <= Len(summaryLines')
             /\ SubSeq(summaryLines', 1, Len(EmbeddedSummary(LoadedTranscript').lines))
                   = EmbeddedSummary(LoadedTranscript').lines]_vars

\* a session without summary was loaded while the session left behind holds a summary message
C21_SwitchedAwayFromSummary ==
    /\ pc = "idle"
    /\ activeSessionId = "s2"
    /\ history = << SystemMessage(systemPrompt) >>
    /\ summaryLines = << >>
    /\ summaryHashes = {}
    /\ Len(storedMessages(sessions, "s1")) >= 2
    /\ IsSummaryMessage(storedMessages(sessions, "s1")[2])

\* C22: no two prompt-handling cycles are in flight at once, and the turns they append
\* never interleave: in the transcript no user turn directly follows another user turn,
\* the answer to a prompt is appended before the next prompt is
C22_CyclesNeverInterleave ==
    /\ ~(pc # "idle" /\ commandPc # "idle")
    /\ \A j \in 1..(Len(history) - 1) :
          ~(history[j].role = "user" /\ history[j + 1].role = "user")

\* the entries of the batch log whose tool succeeded with display content and no other text
ContentOnly ==
    {k \in 1..Len(batchLog) :
        /\ batchLog[k].invoked
        /\ batchLog[k].result.success
        /\ batchLog[k].result.content # ""
        /\ batchLog[k].result.message = ""}

\* the canonical name of the tool the entry k of the batch log answers
CanonicalName(k) == normalizedAction(toolCalls[batchLog[k].pos].name)

\* C23 as stated: the text of the tool turn appended for a tool that succeeded with display
\* content c and no other text is "Tool result for <canonical name>:", a newline, and c
C23_ResultTextIsHeaderThenContent ==
    \A k \in ContentOnly :
       batchLog[k].content =
          "Tool result for " \o CanonicalName(k) \o ":\n" \o batchLog[k].result.content

\* C23: the text of the tool turn appended for a tool that succeeded with display content
\* c and no other text is "Tool result for <canonical name>:", a newline, and c without
\* the white space at its start and its end
C23_ResultTextIsHeaderThenTrimmedContent ==
    \A k \in ContentOnly :
       /\ batchLog[k].role = "tool"
       /\ batchLog[k].name = CanonicalName(k)
       /\ batchLog[k].content =
             "Tool result for " \o CanonicalName(k) \o ":\n" \o Trim(batchLog[k].result.content)

\* read_file returned a file whose text ends with a line break
C23_ReadFileWithLineBreak ==
    \E k \in ContentOnly :
       /\ CanonicalName(k) = "read_file"
       /\ batchLog[k].result.content = "abc\n"
       /\ batchLog[k].content = "Tool result for read_file:\nabc"

\* the location is inside the workspace root directory: the root or a path below it
InsideWorkspace(location) ==
    location = workspaceRoot \/ StartsWith(location, workspaceRoot \o "/")

\* C24: every path the FileManager hands to the file system lies inside the workspace
\* root directory, and an operation with a target that resolves to a location outside
\* of it returns a failure
C24_StaysInsideWorkspace ==
    /\ \A location \in disk.touched : InsideWorkspace(location)
    /\ (\E location \in disk.last.locations : ~InsideWorkspace(location))
          => ~disk.last.success

\* C25: no stored session holds the array of the live transcript; appending to or
\* compacting the live transcript changes no stored session, only the writes of
\* updateSessionMessages do
C25_StoreSharesNoArray ==
    /\ [](aliases = {})
    /\ [][(StoreAddUserMessage \/ StoreAddAssistantMessage \/ StoreOptimize)
             => sessions' = sessions]_vars

\* the session that was stored and loaded again got a new turn that its stored messages lack
C25_LoadedThenAppended ==
    /\ activeSessionId = "s1"
    /\ Len(storedMessages(sessions, "s2")) >= 1
    /\ Len(storedMessages(sessions, "s1")) >= 2
    /\ Len(history) = Len(storedMessages(sessions, "s1")) + 1
    /\ SubSeq(history, 1, Len(history) - 1) = storedMessages(sessions, "s1")

\* the pass ContextManager.optimize makes over the transcript as it is now
PassNow == optimize(history, summaryLines, summaryHashes, options)

\* tail is what the transcript ends with
IsSuffix(tail, transcript) ==
    /\ Len(tail) <= Len(transcript)
    /\ SubSeq(transcript, Len(transcript) - Len(tail) + 1, Len(transcript)) = tail

\* C26: a pass that reports summaryUpdated returns the system message of its input, then
\* one assistant message whose content is the summary prefix and, line by line, every
\* bullet accumulated so far in the order of accumulation, then a tail of its input in
\* the input's order; no message after the second is a summary message
C26_UpdatedTranscriptShape ==
    \A r \in {PassNow} :
       r.summaryUpdated =>
          /\ Len(r.messages) >= 2
          /\ r.messages[1] = history[1]
          /\ r.messages[1].role = "system"
          /\ r.messages[2] = AssistantMessage(summaryPrefix \o "\n" \o Join(r.lines, "\n"),
                                              NoUsage, << >>)
          /\ Len(summaryLines) <= Len(r.lines)
          /\ SubSeq(r.lines, 1, Len(summaryLines)) = summaryLines
          /\ r.removed = 0 => IsSuffix(SubSeq(r.messages, 3, Len(r.messages)), history)
          /\ \A j \in 3..Len(r.messages) : ~IsSummaryMessage(r.messages[j])

\* a pass over a transcript that holds a summary already adds bullets and keeps a tail
C26_SecondSummaryPass ==
    /\ Len(summaryLines) > 0
    /\ Len(history) >= 2
    /\ IsSummaryMessage(history[2])
    /\ PassNow.summaryUpdated
    /\ Len(PassNow.lines) > Len(summaryLines)
    /\ Len(PassNow.messages) > 2

\* C27: the result of ContextManager.optimize is flagged optimized exactly when its
\* messages differ from the transcript it was given
C27_OptimizedIffChanged ==
    \A r \in {PassNow} : r.optimized <=> (r.messages # history)

\* the head a pass with result r discards from the transcript: what comes before the
\* tail that follows the summary message in r.messages
DiscardedHead(r) == SubSeq(history, 1, Len(history) - (Len(r.messages) - 2))

\* the bullet is one for the turn: it carries the turn's label and, for a turn that
\* requested tools, names every tool it requested
BulletFor(bullet, entry) ==
    /\ StartsWith(bullet, "@ " \o bulletLabel(entry) \o ":")
    /\ \A k \in 1..Len(entry.toolCalls) :
          Includes(bullet, "Call Tool " \o entry.toolCalls[k].name)

\* C28: after a pass that summarized, every turn of the discarded head that is neither
\* the system turn nor a summary message has a bullet among the accumulated lines; the
\* bullet of an assistant turn that requested tools names each of them, also when the
\* turn has no text
C28_HeadTurnsHaveBullets ==
    \A r \in {PassNow} :
       (r.summaryUpdated /\ r.removed = 0) =>
          \A j \in 1..Len(DiscardedHead(r)) :
             \/ history[j].role = "system"
             \/ IsSummaryMessage(history[j])
             \/ \E i \in 1..Len(r.lines) : BulletFor(r.lines[i], history[j])

\* no line occurs twice in the lines
NoLineTwice(lines) ==
    \A i \in 1..Len(lines) : \A j \in 1..Len(lines) : i < j => lines[i] # lines[j]

\* C29: in a conversation that is not loaded again, the accumulated summaryLines hold no
\* line twice, after the passes made so far and after the pass that comes next
C29_NoLineTwiceAcrossPasses ==
    /\ NoLineTwice(summaryLines)
    /\ NoLineTwice(PassNow.lines)

\* the next pass discards a turn whose bullet an earlier pass put into summaryLines
C29_PassMeetsKnownBullet ==
    /\ Len(summaryLines) > 0
    /\ PassNow.messages # history
    /\ \E j \in 1..Len(DiscardedHead(PassNow)) :
          /\ bulletOf(history[j]) # ""
          /\ \E i \in 1..Len(summaryLines) : summaryLines[i] = bulletOf(history[j])

\* the pass over the transcript as it is now is triggered by the length, not by the usage
LengthTriggered ==
    /\ options.enabled
    /\ options.summaryEnabled
    /\ Len(history) > 2
    /\ Len(history) > options.summaryThreshold
    /\ ~shouldForceSummaryByTokens(history, options)
    /\ PassNow.removed = 0

\* the turns a pass has to keep: the most recent summaryRetention turns of the transcript
RetainedCount == Min(Max(0, options.summaryRetention), Len(history))

NoToolTurns(messages) ==
    \A i \in 1..Len(messages) :
       /\ messages[i].role # "tool"
       /\ Len(messages[i].toolCalls) = 0

\* C31: with compaction and summaries enabled, summaryRetention + 2 <= summaryThreshold
\* and a transcript without tool turns, the transcript ConversationHandler holds after
\* optimize() returns has at most summaryThreshold messages, whatever the turns say
C31_OptimizedTranscriptWithinThreshold ==
    (/\ options.enabled
     /\ options.summaryEnabled
     /\ options.summaryRetention + 2 <= options.summaryThreshold
     /\ NoToolTurns(history))
       => Len(convOptimize(history, summaryLines, summaryHashes, options).history)
             <= options.summaryThreshold

\* the token counts the vendor's reply of the exchange reports, under the names the
\* adapter reads them by: -1 for a count the reply leaves out
ReportedCounts ==
    CASE ~wire.sent -> [prompt |-> -1, completion |-> -1, total |-> -1]
      [] wire.adapter \in {"openai", "grok", "deepseek"} ->
            [prompt |-> wire.data.usage.prompt_tokens,
             completion |-> wire.data.usage.completion_tokens,
             total |-> wire.data.usage.total_tokens]
      [] wire.adapter = "openai-responses" ->
            [prompt |-> Max(wire.data.usage.input_tokens, wire.data.usage.prompt_tokens),
             completion |-> Max(wire.data.usage.output_tokens,
                                wire.data.usage.completion_tokens),
             total |-> wire.data.usage.total_tokens]
      [] wire.sent /\ wire.adapter = "claude" ->
            [prompt |-> wire.data.usage.input_tokens,
             completion |-> wire.data.usage.output_tokens, total |-> -1]
      [] wire.adapter = "gemini" ->
            [prompt |-> wire.data.usageMetadata.promptTokenCount,
             completion |-> wire.data.usageMetadata.candidatesTokenCount,
             total |-> wire.data.usageMetadata.totalTokenCount]

\* C32: for every adapter, a reply that reports the prompt and the completion count but
\* no combined total gives a usage whose totalTokens is the sum of the two counts
C32_TotalIsSumWhenAbsent ==
    (/\ ReportedCounts.prompt >= 0
     /\ ReportedCounts.completion >= 0
     /\ ReportedCounts.total < 0)
       => wire.response.usage.totalTokens
             = ReportedCounts.prompt + ReportedCounts.completion

\* every tool turn of messages has become a tool_result block that names the turn's
\* toolCallId
ToolResultsCorrelate(messages, request) ==
    \A i \in 1..Len(messages) :
       messages[i].role = "tool" =>
          /\ Len(request[i].blocks) = 1
          /\ request[i].blocks[1].type = "tool_result"
          /\ request[i].blocks[1].id = messages[i].toolCallId

\* C33: in a request of the Claude adapter, the tool_use_id of the tool_result made of a
\* tool turn is the turn's toolCallId, also when one assistant turn issued several calls
C33_ToolResultNamesItsCall ==
    (wire.adapter = "claude" /\ wire.sent)
       => ToolResultsCorrelate(withoutSystem(wire.messages), wire.request)

\* the concatenation of a sequence of sequences
RECURSIVE Flatten(_)
Flatten(seqs) == IF Len(seqs) = 0 THEN << >> ELSE Head(seqs) \o Flatten(Tail(seqs))

\* what identifies a call on the wire of an adapter: its id and its name, the name alone
\* where the vendor's shape has no id (Gemini)
CallKeys(adapter, calls) ==
    [k \in 1..Len(calls) |->
        << IF adapter = "gemini" THEN "" ELSE calls[k].id, calls[k].name >>]

\* the calls of the elements of items that pass, as ToolCalls
CallsAmong(items, passes(_), idOf(_)) ==
    LET kept == SelectSeqIdx(items, {i \in 1..Len(items) : passes(items[i])}, 1)
    IN  [k \in 1..Len(kept) |-> ToolCall(idOf(kept[k]), kept[k].name, "")]

IsFunctionCallItem(item) == item.type = "function_call"
IsToolUse(block) == block.type = "tool_use"
IsFunctionCallPart(part) == part.kind = "functionCall"
CallIdOf(item) == item.call_id
IdOf(block) == block.id
NoIdOf(part) == ""

\* the tool calls of the assistant turns of the transcript of the exchange, in order
TranscriptCalls ==
    CallKeys(wire.adapter,
             Flatten([i \in 1..Len(wire.messages) |-> wire.messages[i].toolCalls]))

\* the tool calls the request of the exchange echoes to the vendor, in order
EchoedCalls ==
    CallKeys(wire.adapter,
       CASE wire.adapter \in {"openai", "grok", "deepseek"} ->
               Flatten([i \in 1..Len(wire.request) |-> wire.request[i].tool_calls])
         [] wire.adapter = "openai-responses" ->
               CallsAmong(wire.request, IsFunctionCallItem, CallIdOf)
         [] wire.adapter = "claude" ->
               CallsAmong(Flatten([i \in 1..Len(wire.request) |-> wire.request[i].blocks]),
                          IsToolUse, IdOf)
         [] wire.adapter = "gemini" ->
               CallsAmong(Flatten([i \in 1..Len(wire.request) |-> wire.request[i].parts]),
                          IsFunctionCallPart, NoIdOf))

\* the tool calls the vendor's reply of the exchange requests, in order
ReplyCalls ==
    CallKeys(wire.adapter,
       CASE wire.adapter \in {"openai", "grok", "deepseek"} -> wire.data.tool_calls
         [] wire.adapter = "openai-responses" ->
               CallsAmong(wire.data.output, IsFunctionCallItem, CallIdOf)
         [] wire.adapter = "claude" -> CallsAmong(wire.data.content, IsToolUse, IdOf)
         [] wire.adapter = "gemini" ->
               CallsAmong(wire.data.parts, IsFunctionCallPart, NoIdOf))

\* C34: an adapter echoes every tool call of the assistant turns of the transcript to
\* its vendor, in order, and returns every tool call of the vendor's reply, in order
C34_EveryToolCallPreserved ==
    wire.sent =>
       /\ EchoedCalls = TranscriptCalls
       /\ CallKeys(wire.adapter, wire.response.toolCalls) = ReplyCalls
       /\ wire.response.message.toolCalls = wire.response.toolCalls

\* C35: a change of the tool definitions, as the workspace-folder watcher makes it,
\* leaves the transcript and the messages stored for the active session as they were
C35_ToolChangeKeepsConversation ==
    [][WorkspaceFoldersChanged =>
          /\ history' = history
          /\ storedMessages(sessions', activeSessionId)
                = storedMessages(sessions, activeSessionId)]_vars

\* C36: a step of a prompt cycle (the provider's answer, a tool's result) changes the
\* messages stored for no session but the one that was active when the cycle started
C36_CycleWritesItsOwnSession ==
    [][(InFlightResponds \/ TurnToolReturns) =>
          \A i \in 1..Len(sessions) :
             sessions'[i].messages # sessions[i].messages => sessions[i].id = cycleSession]_vars

\* C37: after ensureBootstrapped and any calls of createSession, deleteSession,
\* setActiveSession, updateSessionMessages and renameSession, the session list is not
\* empty and the active session id names a session of the list
C37_ActiveSessionExists ==
    /\ Len(sessions) > 0
    /\ activeSessionId \in KnownIds

\* the session createSession made first was deleted while it was the only one to have
\* been made, and the session at the head of the list is the active one
C37_CreatedSessionDeleted ==
    /\ created = 1
    /\ "session-1" \notin KnownIds
    /\ Len(sessions) > 0
    /\ activeSessionId = sessions[1].id

\* the panel was told to show the message: a turn of the transcript has its role and
\* its content
StoredTurn(shown, transcript) ==
    \E i \in 1..Len(transcript) :
       transcript[i].role = shown.role /\ transcript[i].content = shown.content

\* C38: when a prompt cycle has ended, by a final answer or by a continuation that
\* failed, the messages stored for the active session are the transcript of the
\* conversation, and every message the cycle passed to the panel is a turn of them
C38_StoredIsLiveAndHoldsShown ==
    (pc = "idle" /\ lastResponse.kind # "none") =>
       /\ storedMessages(sessions, activeSessionId) = history
       /\ \A k \in 1..Len(hostLog) :
             StoredTurn(hostLog[k], storedMessages(sessions, activeSessionId))

\* headline.match(/^Tool result for (.+?):\s*(.*)$/): the position of the colon that
\* ends the lazy group, which holds a character at least; 0 when nothing matches
actionMatch(headline) ==
    IF StartsWith(headline, "Tool result for ")
    THEN IndexOf(headline, ":", Len("Tool result for ") + 2)
    ELSE 0

\* actionMatch?.[1] ?? 'tool'
actionName(headline) ==
    IF actionMatch(headline) = 0 THEN "tool"
    ELSE SubSeq(headline, Len("Tool result for ") + 1, actionMatch(headline) - 1)

\* actionMatch?.[2] ?? '': what follows the colon and the white space after it
statusFragment(headline) ==
    IF actionMatch(headline) = 0 THEN ""
    ELSE TrimStart(SliceFrom(headline, actionMatch(headline)))

\* toPanelMessage for a tool turn whose content starts with 'Tool result for ', the
\* html left out
toPanelMessage(message) ==
    LET lines == SplitLines(message.content)
        headline == lines[1]
        bodyText == Trim(Join(Tail(lines), "\n"))
        success == ~Includes(statusFragment(headline), "FAILED")
    IN  [role |-> "tool",
         content |-> IF bodyText # "" THEN bodyText
                     ELSE IF statusFragment(headline) # "" THEN statusFragment(headline)
                     ELSE headline,
         summary |-> "Tool @ " \o actionName(headline)
                     \o (IF success THEN " (success)" ELSE " (failed)"),
         success |-> success]

\* C39: the tool message built by buildToolOutputs from a result, rendered through
\* toPanelMessage, has the success flag of the result
C39_PanelSuccessIsResultSuccess ==
    \A k \in 1..Len(batchLog) :
       (batchLog[k].role = "tool"
        /\ batchLog[k].content = buildToolOutputs(batchLog[k].name, batchLog[k].result))
       => toPanelMessage([role |-> "tool", content |-> batchLog[k].content]).success
          = batchLog[k].result.success

====
